---- MODULE Spec2Model ----
(***************************************************************************)
(* A model of the DynamoDB adapter's storage layer (package storage) and   *)
(* service layer (package services): conditional writes run as backend     *)
(* read/write transactions, the TransactWriteItems mutation builders, the  *)
(* query planner with its offset pagination, and the row decoder with the  *)
(* condition primitives that read its output.                              *)
(*                                                                         *)
(* Go values are tagged records, so that values of different dynamic types *)
(* can be compared: [F |-> 3] is a float64, [S |-> "x"] a string,          *)
(* [L |-> <<..>>] a []interface{}, [SS |-> <<..>>] a []string,             *)
(* [J |-> <<..>>] the JSON text of a list, [M |-> f] a map, [B |-> b] a    *)
(* bool, [I |-> n] an int, [E |-> msg] an error value, and Nil is Go's nil *)
(* (a NULL cell in the backend). A Go map is a function whose domain is    *)
(* the set of keys present.                                                *)
(***************************************************************************)
EXTENDS Integers, Sequences, FiniteSets, TLC

\* ------------------------------------------------------------------ bounds

\* The largest finite float64 of the model: a sum beyond it is an infinity.
MaxFloat == 20
\* How many backend aborts one request can suffer.
MaxAborts == 1
\* How many requests one client issues.
MaxCalls == 2

\* ------------------------------------------------------------------ Go values

Nil == [NIL |-> TRUE]
F(x) == [F |-> x]
S(x) == [S |-> x]
L(x) == [L |-> x]
SS(x) == [SS |-> x]
J(x) == [J |-> x]
M(x) == [M |-> x]
GoBool(x) == [B |-> x]
GoInt(x) == [I |-> x]
GoError(x) == [E |-> x]

IsFloat(v) == DOMAIN v = {"F"}
IsList(v) == DOMAIN v = {"L"}
IsStrings(v) == DOMAIN v = {"SS"}
IsJSON(v) == DOMAIN v = {"J"}
IsMap(v) == DOMAIN v = {"M"}

PosInf == MaxFloat + 1
NegInf == 0 - (MaxFloat + 1)
IsInf(x) == x = PosInf \/ x = NegInf

\* float64 addition: a sum out of the finite range is an infinity, and an
\* infinity stays one.
FAdd(a, b) ==
    IF a = PosInf \/ b = PosInf THEN PosInf
    ELSE IF a = NegInf \/ b = NegInf THEN NegInf
    ELSE IF a + b > MaxFloat THEN PosInf
    ELSE IF a + b < 0 - MaxFloat THEN NegInf
    ELSE a + b

\* Go maps
EmptyMap == [x \in {} |-> Nil]
MapPut(m, k, v) == [x \in (DOMAIN m) \cup {k} |-> IF x = k THEN v ELSE m[x]]
MapDelete(m, k) == [x \in (DOMAIN m) \ {k} |-> m[x]]
\* m overwritten by the entries of w
MapMerge(m, w) == [x \in (DOMAIN m) \cup (DOMAIN w) |-> IF x \in DOMAIN w THEN w[x] ELSE m[x]]
MapGet(m, k) == IF k \in DOMAIN m THEN m[k] ELSE Nil

Range(s) == {s[i] : i \in 1..Len(s)}

\* ------------------------------------------------------------------ errors

NoErr == "nil"
ConditionalCheckFailedException == "ConditionalCheckFailedException"
ValidationException == "ValidationException"
ResourceNotFoundException == "ResourceNotFoundException"

\* ------------------------------------------------------------------ schema

\* The one table of the write model: partition key id, no sort key.
Table == "T"
PartitionKey == "id"
SortKey == ""
\* models.TableColumnMap[Table] and models.TableDDL[Table]
TableColumnMap == <<"id", "n", "l", "s", "mp">>
TableDDL == [id |-> "S", n |-> "N", l |-> "L", s |-> "SS", mp |-> "M"]
ColumnSet == Range(TableColumnMap)

NoRow == [NOROW |-> TRUE]

\* ------------------------------------------------------------------ row decoding

\* t.ReadRow(ctx, table, key, cols): the cells of the columns asked for, or
\* NoRow when the key has no row.
ReadRow(row, cols) ==
    IF row = NoRow THEN NoRow ELSE [c \in cols |-> row[c]]

\* A NULL string cell is stored in the map as a present key with a nil value.
parseStringColumn(cell, col, row) ==
    IF cell = Nil THEN MapPut(row, col, Nil) ELSE MapPut(row, col, cell)

\* A NULL numeric cell is stored as a present key with a nil value.
parseNumericColumn(cell, col, row) ==
    IF cell = Nil THEN MapPut(row, col, Nil) ELSE MapPut(row, col, cell)

\* A NULL or empty string array leaves the key absent; the value is a []string.
parseStringArrayColumn(cell, col, row) ==
    IF cell # Nil /\ Len(cell.SS) > 0 THEN MapPut(row, col, cell) ELSE row

\* A NULL JSON cell leaves the key absent; a JSON array decodes to a
\* []interface{} (parseDynamoDBJSON keeps plain elements as they are).
parseListColumn(cell, col, row) ==
    IF cell # Nil THEN MapPut(row, col, L(cell.J)) ELSE row

\* A NULL JSON cell leaves the key absent.
parseMapColumn(cell, col, row) ==
    IF cell # Nil THEN MapPut(row, col, cell) ELSE row

parseColumn(type, cell, col, row) ==
    CASE type = "S" -> parseStringColumn(cell, col, row)
      [] type = "N" -> parseNumericColumn(cell, col, row)
      [] type = "SS" -> parseStringArrayColumn(cell, col, row)
      [] type = "L" -> parseListColumn(cell, col, row)
      [] type = "M" -> parseMapColumn(cell, col, row)

\* parseRow: the first map it returns. A nil row gives an empty map.
parseRow(r) ==
    IF r = NoRow THEN EmptyMap
    ELSE LET one(c) == parseColumn(TableDDL[c], r[c], c, EmptyMap)
         IN  [c \in {x \in DOMAIN r : x \in DOMAIN one(x)} |-> one(c)[c]]

\* parseRow: the second map it returns, the raw JSON of the map columns.
parseRowSpanner(r) ==
    IF r = NoRow THEN EmptyMap
    ELSE [c \in {x \in DOMAIN r : TableDDL[x] = "M" /\ r[x] # Nil} |-> r[c]]

\* ------------------------------------------------------------------ conditions

\* A condition statement is [fn |-> f, arg |-> c]: the text f(c), or the bare
\* column name c when f is "".
Stmt(f, c) == [fn |-> f, arg |-> c]

evaluateStatementFromRowMap(conditionalExpression, colName, rowMap) ==
    IF conditionalExpression.fn \in {"attribute_not_exists", "if_not_exists"}
    THEN IF DOMAIN rowMap = {} THEN GoBool(TRUE)
         ELSE GoBool(colName \notin DOMAIN rowMap)
    ELSE IF conditionalExpression.fn \in {"attribute_exists", "if_exists"}
    THEN IF DOMAIN rowMap = {} THEN GoBool(FALSE)
         ELSE GoBool(colName \in DOMAIN rowMap)
    ELSE IF conditionalExpression.fn = "size"
    THEN IF conditionalExpression.arg \notin DOMAIN rowMap
         THEN GoError("Attribute not found in row")
         ELSE IF IsList(rowMap[conditionalExpression.arg])
              THEN GoInt(Len(rowMap[conditionalExpression.arg].L))
              ELSE GoError("size() function is only valid for list attributes")
    ELSE MapGet(rowMap, conditionalExpression.arg)

\* models.Eval: the compiled condition. Cond is the program, run over ValueMap:
\*   [k |-> "true"]          no condition
\*   [k |-> "tok"]           the value bound to the first token, a bool
\*   [k |-> "lt", c |-> x]   the value bound to the first token < x
Eval(attributes, cols, cond) ==
    [Attributes |-> attributes, Cols |-> cols,
     Tokens |-> [i \in 1..Len(attributes) |-> i], Cond |-> cond]
NoCondition == Eval(<<>>, <<>>, [k |-> "true"])
CondFn(f, c) == Eval(<<Stmt(f, c)>>, <<c>>, [k |-> "tok"])
CondLess(c, x) == Eval(<<Stmt("", c)>>, <<c>>, [k |-> "lt", c |-> x])

\* utils.EvaluateExpression: runs the program; a comparison of a value that is
\* no number fails.
EvaluateExpression(e, ValueMap) ==
    CASE e.Cond.k = "true" -> [status |-> TRUE, err |-> NoErr]
      [] e.Cond.k = "tok" ->
            IF DOMAIN ValueMap[e.Tokens[1]] = {"B"}
            THEN [status |-> ValueMap[e.Tokens[1]].B, err |-> NoErr]
            ELSE [status |-> FALSE, err |-> ValidationException]
      [] e.Cond.k = "lt" ->
            IF IsFloat(ValueMap[e.Tokens[1]])
            THEN [status |-> ValueMap[e.Tokens[1]].F < e.Cond.c, err |-> NoErr]
            ELSE [status |-> FALSE, err |-> ValidationException]

\* models.UpdateExpressionCondition: Field and Condition are parallel; AddValues
\* is kept apart because evaluateConditionalExpression deletes from it.
NoExpr == [NOEXPR |-> TRUE]
Expr(field, condition, addValues) ==
    [Field |-> field, Condition |-> condition, AddValues |-> addValues]

checkInifinty(value) ==
    IF IsInf(value) THEN ValidationException ELSE NoErr

\* errors.AssignError: a row that is not found is no error (the row read is
\* then nil and parseRow gives an empty map).
AssignError(r) == NoErr

\* The columns evaluateConditionalExpression reads. Every pass of the loop
\* over expr.AddValues assigns cols afresh from e.Cols, so that only the key
\* visited last (lastK: Go's map order is not fixed) is kept and expr.Field
\* is lost whenever AddValues is not empty.
conditionCols(e, expr, AddValues, lastK) ==
    IF expr = NoExpr THEN e.Cols
    ELSE IF DOMAIN AddValues = {} THEN e.Cols \o expr.Field
    ELSE Append(e.Cols, lastK)

\* m[f] = sum, and the check of the sum for infinity. Gives [m, err].
addTo(m, f, sum) == [m |-> MapPut(m, f, F(sum)), err |-> checkInifinty(sum)]

\* One pass of the loop over expr.Field, for field f whose statement gave
\* status. Gives [m, err].
fieldPass(f, status, rowMap, m, AddValues) ==
    IF status # GoBool(TRUE)
    THEN IF f \in DOMAIN AddValues
         THEN IF f \in DOMAIN rowMap /\ IsFloat(rowMap[f])
              THEN addTo(m, f, FAdd(rowMap[f].F, AddValues[f]))
              ELSE [m |-> m, err |-> NoErr]
         ELSE [m |-> MapDelete(m, f), err |-> NoErr]
    ELSE IF f \in DOMAIN AddValues /\ f \in DOMAIN m /\ IsFloat(m[f])
         THEN addTo(m, f, FAdd(m[f].F, AddValues[f]))
         ELSE [m |-> m, err |-> NoErr]

\* The loop over expr.Field. Gives [m, AddValues, err].
RECURSIVE fieldLoop(_, _, _, _, _)
fieldNext(index, expr, rowMap, pass, AddValues) ==
    IF pass.err # NoErr
    THEN [m |-> pass.m, AddValues |-> AddValues, err |-> pass.err]
    ELSE fieldLoop(index + 1, expr, rowMap, pass.m,
                   MapDelete(AddValues, expr.Field[index]))
fieldLoop(index, expr, rowMap, m, AddValues) ==
    IF index > Len(expr.Field)
    THEN [m |-> m, AddValues |-> AddValues, err |-> NoErr]
    ELSE fieldNext(index, expr, rowMap,
                   fieldPass(expr.Field[index],
                             evaluateStatementFromRowMap(expr.Condition[index],
                                                         expr.Field[index], rowMap),
                             rowMap, m, AddValues),
                   AddValues)

\* The loop over what is left of expr.AddValues. Gives [m, err].
addValuesLoop(rowMap, m, AddValues) ==
    LET isNum(k) == k \in DOMAIN rowMap /\ IsFloat(rowMap[k])
        val(k) == IF isNum(k) THEN FAdd(rowMap[k].F, AddValues[k]) ELSE AddValues[k]
    IN  [m |-> MapMerge(m, [k \in DOMAIN AddValues |-> F(val(k))]),
         err |-> IF \E k \in DOMAIN AddValues : isNum(k) /\ checkInifinty(val(k)) # NoErr
                 THEN ValidationException ELSE NoErr]

\* The values bound to the tokens of the condition
valueMap(e, rowMap) ==
    [i \in 1..Len(e.Attributes) |->
        evaluateStatementFromRowMap(e.Attributes[i], e.Cols[i], rowMap)]

\* What evaluateConditionalExpression returns, after the two loops (al: what
\* they gave, AddValues: expr.AddValues as they left it) and the evaluation ev.
evaluateResult(al, AddValues, rowMap, cols, ev) ==
    IF al.err # NoErr
    THEN [status |-> FALSE, err |-> al.err, m |-> al.m, AddValues |-> AddValues,
          rowMap |-> rowMap, read |-> TRUE, cols |-> cols]
    ELSE [status |-> ev.status, err |-> ev.err, m |-> al.m, AddValues |-> AddValues,
          rowMap |-> rowMap, read |-> TRUE, cols |-> cols]

\* evaluateConditionalExpression from the loop over expr.AddValues on (fl:
\* what the loop over expr.Field gave)
evaluateAddValues(fl, rowMap, cols, e) ==
    evaluateResult(IF fl.err # NoErr THEN [m |-> fl.m, err |-> fl.err]
                   ELSE addValuesLoop(rowMap, fl.m, fl.AddValues),
                   fl.AddValues,
                   rowMap, cols, EvaluateExpression(e, valueMap(e, rowMap)))

\* evaluateConditionalExpression from the row read on (a nil expr has no
\* AddValues)
evaluateRow(rowMap, cols, m, e, expr, AddValues) ==
    evaluateAddValues(IF expr = NoExpr
                      THEN [m |-> m, AddValues |-> EmptyMap, err |-> NoErr]
                      ELSE fieldLoop(1, expr, rowMap, m, AddValues),
                      rowMap, cols, e)

evaluateFail(x, m, AddValues) ==
    [status |-> FALSE, err |-> x, m |-> m, AddValues |-> AddValues,
     rowMap |-> EmptyMap, read |-> FALSE, cols |-> {}]

\* The read of evaluateConditionalExpression, of the columns cols
evaluateRead(r, cols, m, e, expr, AddValues) ==
    IF AssignError(r) # NoErr THEN evaluateFail(AssignError(r), m, AddValues)
    ELSE evaluateRow(parseRow(r), cols, m, e, expr, AddValues)

\* evaluateConditionalExpression(ctx, t, table, m, e, expr) on the row `row`
\* the key has in the transaction. Gives [status, err, m, AddValues, rowMap,
\* read, cols]: m and expr.AddValues as the call leaves them, and whether it
\* read the row and which columns.
evaluateColumns(row, cols, m, e, expr, AddValues) ==
    evaluateRead(ReadRow(row, cols), cols, m, e, expr, AddValues)
evaluateConditionalExpression(row, m, e, expr, AddValues, lastK) ==
    IF PartitionKey \notin DOMAIN m THEN evaluateFail(ValidationException, m, AddValues)
    ELSE IF SortKey # "" /\ SortKey \notin DOMAIN m
    THEN evaluateFail(ValidationException, m, AddValues)
    ELSE evaluateColumns(row, Range(conditionCols(e, expr, AddValues, lastK)) \cap ColumnSet,
                         m, e, expr, AddValues)

\* ------------------------------------------------------------------ mutations

NoMut == [NOMUT |-> TRUE]
\* spanner.InsertOrUpdateMap(table, m) for the row of key k
InsertOrUpdateMap(k, m) == [kind |-> "InsertOrUpdate", key |-> k, map |-> m]
\* spanner.Delete(table, key)
DeleteMutation(k) == [kind |-> "Delete", key |-> k]

\* json.Marshal of the []interface{} values of a map, the other values as they are
serializeLists(m) == [k \in DOMAIN m |-> IF IsList(m[k]) THEN J(m[k].L) ELSE m[k]]

\* Keys with a dot name a field of a map column: strings.Split(k, ".")
PathOf == ("mp.x" :> <<"mp", "x">>) @@ ("mp.y" :> <<"mp", "y">>)
IsDotted(k) == k \in DOMAIN PathOf

\* utils.UpdateFieldByPath on the decoded object: sets the field the path names.
UpdateFieldByPath(data, k, v) == MapPut(data, PathOf[k][2], v)

\* updateMapColumnObject: the JSON object of spannerRow[colName], a copy, with
\* the field of path k set to v.
updateMapColumnObject(spannerRow, colName, k, v) ==
    LET data == IF colName \in DOMAIN spannerRow /\ IsMap(spannerRow[colName])
                THEN spannerRow[colName].M ELSE EmptyMap
    IN  M(UpdateFieldByPath(data, k, v))

\* performPutOperation writing the key of the item and nothing else
performPutKeyOnly(m, spannerRow) == [k \in (DOMAIN m) \cap {PartitionKey} |-> m[k]]

\* performPutOperation: the map of the InsertOrUpdate mutation it buffers.
\* Dotted keys of a map column are replaced by the whole column, rebuilt from
\* spannerRow.
performPutOperation(m, spannerRow) ==
    LET dotted == {k \in DOMAIN m : IsDotted(k) /\ PathOf[k][1] \in DOMAIN TableDDL
                                    /\ TableDDL[PathOf[k][1]] = "M"}
        plain == [k \in (DOMAIN m) \ dotted |-> m[k]]
        cols == {PathOf[k][1] : k \in dotted}
        \* one dotted key per column in the requests of this model
        built == [c \in cols |->
                    LET k == CHOOSE x \in dotted : PathOf[x][1] = c
                    IN  updateMapColumnObject(spannerRow, c, k, m[k])]
    IN  MapMerge(plain, built)

\* utils.ParseListRemoveTarget / utils.RemoveListElement: a REMOVE target is
\* [col |-> c, idx |-> i], idx -1 for a plain column; an index out of range
\* removes nothing.

Target(c, i) == [col |-> c, idx |-> i]
IsListTarget(target) == target.idx >= 0
RemoveListElement(list, idx) ==
    IF idx < 0 \/ idx >= Len(list) THEN list
    ELSE [i \in 1..(Len(list) - 1) |-> IF i <= idx THEN list[i] ELSE list[i + 1]]

\* ------------------------------------------------------------------ write callbacks

\* What one run of a transaction callback leaves behind:
\*   m         the caller's map the callback was given, after the run
\*   err       the error the callback returns (NoErr: the mutation is buffered)
\*   mut       the mutation given to BufferWrite, or NoMut
\*   AddValues expr.AddValues after the run
\*   oldRes    the caller's oldRes map after the run
\*   update    the map the operation returns to the service layer
\*   read/cols whether the run read the row in the transaction, and the columns
\*   cond      what the condition evaluated to: "none" (not evaluated),
\*             "true", "false", or "error" (the evaluation failed)
Result(m, err, mut, AddValues, oldRes, update, read, cols, cond) ==
    [m |-> m, err |-> err, mut |-> mut, AddValues |-> AddValues, oldRes |-> oldRes,
     update |-> update, read |-> read, cols |-> cols, cond |-> cond]

condOf(guard, ev) ==
    IF ~guard THEN "none"
    ELSE IF ev.err # NoErr THEN "error"
    ELSE IF ev.status THEN "true" ELSE "false"

\* The key a map addresses
KeyOf(m) == IF PartitionKey \in DOMAIN m /\ DOMAIN m[PartitionKey] = {"S"}
            THEN m[PartitionKey].S ELSE "nokey"

\* SpannerPut: the callback from the evaluation of the condition on (ev: what
\* it gave, tmpMap as it left it).
putResult(m, guard, ev, tmpMap, AddValues, spannerRow, oldRes, update) ==
    IF guard /\ ev.err # NoErr
    THEN Result(m, ev.err, NoMut, AddValues, oldRes, update,
                ev.read, ev.cols, condOf(guard, ev))
    ELSE IF guard /\ ~ev.status
    THEN Result(m, ConditionalCheckFailedException, NoMut, AddValues, oldRes,
                update, ev.read, ev.cols, condOf(guard, ev))
    ELSE Result(m, NoErr,
                InsertOrUpdateMap(KeyOf(m), performPutOperation(tmpMap, spannerRow)),
                AddValues, oldRes, MapMerge(update, tmpMap), guard /\ ev.read,
                IF guard THEN ev.cols ELSE {}, condOf(guard, ev))
putEvaluated(m, guard, ev, tmpMap, AddValues, spannerRow, oldRes, update) ==
    putResult(m, guard, ev, IF guard THEN ev.m ELSE tmpMap,
              IF guard THEN ev.AddValues ELSE AddValues, spannerRow, oldRes, update)
putGuarded(row, m, tmpMap, guard, eval, expr, AddValues, spannerRow, oldRes, update, lastK) ==
    putEvaluated(m, guard,
                 evaluateConditionalExpression(row, tmpMap, eval, expr, AddValues, lastK),
                 tmpMap, AddValues, spannerRow, oldRes, update)

\* SpannerPut: the callback, on the row `row` the key has in the transaction.
\* update is the map the runs of the callback fill and the operation returns.
SpannerPut(row, m, eval, expr, AddValues, spannerRow, oldRes, update, lastK) ==
    putGuarded(row, m, serializeLists(m), Len(eval.Attributes) > 0 \/ expr # NoExpr,
               eval, expr, AddValues, spannerRow, oldRes, update, lastK)

\* SpannerDelete: the callback from the evaluation of the condition on.
deleteResult(m, guard, ev, tmpMap, AddValues, oldRes) ==
    IF guard /\ ev.err # NoErr
    THEN Result(m, ev.err, NoMut, AddValues, oldRes, EmptyMap,
                ev.read, ev.cols, condOf(guard, ev))
    ELSE IF guard /\ ~ev.status
    THEN Result(m, ConditionalCheckFailedException, NoMut, AddValues, oldRes, EmptyMap,
                ev.read, ev.cols, condOf(guard, ev))
    ELSE IF PartitionKey \notin DOMAIN tmpMap
    THEN Result(m, ResourceNotFoundException, NoMut, AddValues, oldRes, EmptyMap,
                guard /\ ev.read, IF guard THEN ev.cols ELSE {}, condOf(guard, ev))
    ELSE IF SortKey # "" /\ SortKey \notin DOMAIN tmpMap
    THEN Result(m, ResourceNotFoundException, NoMut, AddValues, oldRes, EmptyMap,
                guard /\ ev.read, IF guard THEN ev.cols ELSE {}, condOf(guard, ev))
    ELSE Result(m, NoErr, DeleteMutation(KeyOf(tmpMap)), AddValues, oldRes, EmptyMap,
                guard /\ ev.read, IF guard THEN ev.cols ELSE {}, condOf(guard, ev))
deleteEvaluated(m, guard, ev, AddValues, oldRes) ==
    deleteResult(m, guard, ev, IF guard THEN ev.m ELSE m,
                 IF guard THEN ev.AddValues ELSE AddValues, oldRes)

\* SpannerDelete: the callback.
SpannerDelete(row, m, eval, expr, AddValues, oldRes, lastK) ==
    deleteEvaluated(m, Len(eval.Attributes) > 0 \/ expr # NoExpr,
                    evaluateConditionalExpression(row, m, eval, expr, AddValues, lastK),
                    AddValues, oldRes)

\* SpannerAdd writing the given value over a float64 cell
addValueOverwrite(existingVal, v) == v

\* The value SpannerAdd writes for a key of tmpMap the row read has: the sum
\* for a float64 cell, the given value as it is for any other cell.
addValue(existingVal, v) ==
    IF IsFloat(existingVal) THEN F(FAdd(existingVal.F, v.F)) ELSE v

\* The loop of SpannerAdd over tmpMap, and the keys put back
addSummed(tmpMap, rs, pValue) ==
    MapPut([k \in DOMAIN tmpMap |->
               IF k \in DOMAIN rs /\ IsFloat(tmpMap[k]) THEN addValue(rs[k], tmpMap[k])
               ELSE tmpMap[k]],
           PartitionKey, pValue)

\* SpannerAdd: the callback from the read of the row on (r: the row read, rs:
\* the row decoded, keyed: tmpMap after the loop).
addResult(m1, r, invalid, keyed, AddValues, oldRes, updatedObj, allCols, cn) ==
    IF r = NoRow
    THEN Result(m1, ResourceNotFoundException, NoMut, AddValues, oldRes, updatedObj,
                TRUE, allCols, cn)
    ELSE IF invalid
    THEN Result(m1, ValidationException, NoMut, AddValues, oldRes, updatedObj,
                TRUE, allCols, cn)
    ELSE Result(m1, NoErr, InsertOrUpdateMap(KeyOf(m1), serializeLists(keyed)),
                AddValues, oldRes, MapMerge(updatedObj, keyed), TRUE, allCols, cn)
addRead(m1, r, rs, tmpMap, AddValues, oldRes, updatedObj, allCols, cn) ==
    addResult(m1, r,
              \* a float64 cell needs a number to add
              \E k \in DOMAIN tmpMap : k \in DOMAIN rs /\ IsFloat(rs[k]) /\ ~IsFloat(tmpMap[k]),
              addSummed(tmpMap, rs, MapGet(m1, PartitionKey)),
              AddValues, oldRes, updatedObj, allCols, cn)
addRow(m1, r, tmpMap, AddValues, oldRes, updatedObj, allCols, cn) ==
    addRead(m1, r, parseRow(r), tmpMap, AddValues, oldRes, updatedObj, allCols, cn)
addEvaluated(row, m1, cols, guard, ev, AddValues, oldRes, updatedObj) ==
    IF guard /\ ~ev.status
    THEN Result(m1, ConditionalCheckFailedException, NoMut,
                ev.AddValues, oldRes, updatedObj, ev.read, ev.cols, condOf(guard, ev))
    ELSE addRow(m1, ReadRow(row, cols \cap ColumnSet), IF guard THEN ev.m ELSE m1,
                IF guard THEN ev.AddValues ELSE AddValues, oldRes, updatedObj,
                cols \cup (IF guard THEN ev.cols ELSE {}), condOf(guard, ev))

\* SpannerAdd: the callback. m1 is the caller's map; the keys are taken out
\* of it before the transaction to give the columns to read. updatedObj is
\* the map the runs of the callback fill and the operation returns.
SpannerAdd(row, m1, eval, expr, AddValues, oldRes, updatedObj, lastK) ==
    addEvaluated(row, m1, (DOMAIN m1) \ {PartitionKey, SortKey},
                 Len(eval.Attributes) > 0 \/ expr # NoExpr,
                 evaluateConditionalExpression(row, m1, eval, expr, AddValues, lastK),
                 AddValues, oldRes, updatedObj)

\* The orders in which the keys of a Go map can be visited
RECURSIVE Orders(_)
Orders(set) ==
    IF set = {} THEN {<<>>}
    ELSE UNION {{<<x>> \o o : o \in Orders(set \ {x})} : x \in set}

\* The value SpannerDel writes for a key of tmpMap the row read has. Only a
\* []interface{} cell (a list column) is taken the difference of; a []string
\* cell (a set column) falls to the default case and the given value stays.
\* order: the order the map of the remaining elements is ranged over.
delValue(v1, v, order) ==
    IF IsList(v1) THEN L(order) ELSE v
delRemaining(v1, v) ==
    IF IsList(v1) /\ IsList(v) THEN Range(v1.L) \ Range(v.L) ELSE {}

\* The loop of SpannerDel over tmpMap, and the keys put back
delMerged(m, rs, pValue, order) ==
    MapPut([k \in DOMAIN m |->
               IF k \in DOMAIN rs THEN delValue(rs[k], m[k], order) ELSE m[k]],
           PartitionKey, pValue)

\* SpannerDel: the callback from the read of the row on.
delRead(mAfter, m1, m, r, rs, AddValues, oldRes, allCols, cn, order) ==
    IF r = NoRow
    THEN Result(mAfter, ResourceNotFoundException, NoMut, AddValues, oldRes, EmptyMap,
                TRUE, allCols, cn)
    \* v.([]interface{}) panics when the given value is no list
    ELSE IF \E k \in DOMAIN m : k \in DOMAIN rs /\ IsList(rs[k]) /\ ~IsList(m[k])
    THEN Result(mAfter, "panic", NoMut, AddValues, oldRes, EmptyMap, TRUE, allCols, cn)
    ELSE Result(mAfter, NoErr,
                InsertOrUpdateMap(KeyOf(m1), delMerged(m, rs, MapGet(m1, PartitionKey), order)),
                AddValues, oldRes, EmptyMap, TRUE, allCols, cn)
delRow(mAfter, m1, m, r, AddValues, oldRes, allCols, cn, order) ==
    delRead(mAfter, m1, m, r, parseRow(r), AddValues, oldRes, allCols, cn, order)
delEvaluated(row, m1, m, guard, ev, AddValues, oldRes, order) ==
    IF guard /\ ~ev.status
    THEN Result(ev.m, ConditionalCheckFailedException, NoMut, ev.AddValues, oldRes,
                EmptyMap, ev.read, ev.cols, condOf(guard, ev))
    ELSE delRow(IF guard THEN ev.m ELSE m1, m1, m, ReadRow(row, (DOMAIN m) \cap ColumnSet),
                IF guard THEN ev.AddValues ELSE AddValues, oldRes,
                (DOMAIN m) \cup (IF guard THEN ev.cols ELSE {}), condOf(guard, ev), order)

\* SpannerDel: the callback. m1 is the caller's map with the keys, which the
\* condition is evaluated on; tmpMap is m, the map with the keys taken out.
\* order gives the order the remaining elements of a list come out in.
SpannerDel(row, m1, eval, expr, AddValues, oldRes, lastK, order) ==
    delEvaluated(row, m1, [k \in (DOMAIN m1) \ {PartitionKey, SortKey} |-> m1[k]],
                 Len(eval.Attributes) > 0 \/ expr # NoExpr,
                 evaluateConditionalExpression(row, m1, eval, expr, AddValues, lastK),
                 AddValues, oldRes, order)

\* The elements that remain of the list column SpannerDel takes the difference of
delListRemaining(row, m1) ==
    IF row # NoRow /\ "l" \in DOMAIN m1 /\ row["l"] # Nil
    THEN delRemaining(L(row["l"].J), m1["l"]) ELSE {}

\* The loop of SpannerRemove over colsToRemove. Gives [oldRes, tmpMap].
RECURSIVE removeLoop(_, _, _, _)
\* a pass of the loop that leaves the list as it was
removeElementKept(index, colsToRemove, oldRes, tmpMap, listAttr, list) ==
    removeLoop(index + 1, colsToRemove, oldRes, tmpMap)
removeElement(index, colsToRemove, oldRes, tmpMap, listAttr, list) ==
    removeLoop(index + 1, colsToRemove, MapPut(oldRes, listAttr, list),
               MapPut(tmpMap, listAttr, list))
removeLoop(index, colsToRemove, oldRes, tmpMap) ==
    IF index > Len(colsToRemove)
    THEN [oldRes |-> oldRes, tmpMap |-> tmpMap]
    ELSE IF IsListTarget(colsToRemove[index])
    THEN IF colsToRemove[index].col \in DOMAIN oldRes
            /\ IsList(oldRes[colsToRemove[index].col])
         THEN removeElement(index, colsToRemove, oldRes, tmpMap, colsToRemove[index].col,
                            L(RemoveListElement(oldRes[colsToRemove[index].col].L,
                                                colsToRemove[index].idx)))
         ELSE removeLoop(index + 1, colsToRemove, oldRes, tmpMap)
    ELSE removeLoop(index + 1, colsToRemove,
                    MapDelete(oldRes, colsToRemove[index].col), tmpMap)

\* SpannerRemove without the test of the condition's status
removeUnconditional(m, guard, ev, rl, AddValues, oldRes) ==
    Result(IF guard THEN ev.m ELSE m, NoErr,
           InsertOrUpdateMap(KeyOf(m), serializeLists(rl.tmpMap)),
           IF guard THEN ev.AddValues ELSE AddValues, rl.oldRes, EmptyMap,
           guard /\ ev.read, IF guard THEN ev.cols ELSE {}, condOf(guard, ev))

\* SpannerRemove: the callback from the evaluation of the condition on (rl:
\* what the loop over colsToRemove gave).
removeEvaluated(m, guard, ev, rl, AddValues, oldRes) ==
    IF guard /\ ~ev.status
    THEN Result(ev.m, ConditionalCheckFailedException, NoMut, ev.AddValues, oldRes,
                EmptyMap, ev.read, ev.cols, condOf(guard, ev))
    ELSE Result(IF guard THEN ev.m ELSE m, NoErr,
                InsertOrUpdateMap(KeyOf(m), serializeLists(rl.tmpMap)),
                IF guard THEN ev.AddValues ELSE AddValues, rl.oldRes, EmptyMap,
                guard /\ ev.read, IF guard THEN ev.cols ELSE {}, condOf(guard, ev))

\* SpannerRemove: the callback. oldRes is the map the caller read before the
\* transaction; the callback changes it in place. tmpMap is a copy of m taken
\* before the condition is evaluated on m.
SpannerRemove(row, m, eval, expr, AddValues, colsToRemove, oldRes, lastK) ==
    removeEvaluated(m, Len(eval.Attributes) > 0 \/ expr # NoExpr,
                    evaluateConditionalExpression(row, m, eval, expr, AddValues, lastK),
                    removeLoop(1, colsToRemove, oldRes, m), AddValues, oldRes)

\* ------------------------------------------------------------------ TransactWriteItems builders

\* performTransactPutOperation: [err, map], the map of the InsertOrUpdate
\* mutation. Dotted keys of a map column are replaced by the whole column,
\* rebuilt from oldRes; a list column is written as its JSON text and must be
\* given a list.
performTransactPutOperation(m, oldRes) ==
    IF \E k \in DOMAIN m : k \in DOMAIN TableDDL /\ TableDDL[k] = "L" /\ ~IsList(m[k])
    THEN [err |-> "invalid list format", map |-> EmptyMap]
    ELSE [err |-> NoErr, map |-> serializeLists(performPutOperation(m, oldRes))]

\* SpannerTransactWritePut from the evaluation of the condition on
transactPutResult(m, guard, ev, put, AddValues, oldRes, update) ==
    IF guard /\ ev.err # NoErr
    THEN Result(m, ev.err, NoMut, AddValues, oldRes, m, ev.read, ev.cols,
                condOf(guard, ev))
    ELSE IF guard /\ ~ev.status
    THEN Result(m, ConditionalCheckFailedException, NoMut, AddValues, oldRes, m,
                ev.read, ev.cols, condOf(guard, ev))
    ELSE IF put.err # NoErr
    THEN Result(m, put.err, NoMut, AddValues, oldRes, update, guard /\ ev.read,
                IF guard THEN ev.cols ELSE {}, condOf(guard, ev))
    ELSE Result(m, NoErr, InsertOrUpdateMap(KeyOf(m), put.map), AddValues, oldRes,
                update, guard /\ ev.read, IF guard THEN ev.cols ELSE {},
                condOf(guard, ev))
transactPutEvaluated(m, guard, ev, AddValues, oldRes) ==
    transactPutResult(m, guard, ev,
                      performTransactPutOperation(IF guard THEN ev.m ELSE m, oldRes),
                      IF guard THEN ev.AddValues ELSE AddValues, oldRes,
                      IF guard THEN ev.m ELSE m)

\* SpannerTransactWritePut, on the row `row` the key has in the transaction
SpannerTransactWritePut(row, m, eval, expr, AddValues, oldRes, lastK) ==
    transactPutEvaluated(m, Len(eval.Attributes) > 0 \/ expr # NoExpr,
                         evaluateConditionalExpression(row, m, eval, expr, AddValues, lastK),
                         AddValues, oldRes)

\* TransactWriteSpannerDelete: the code of the callback of SpannerDelete
TransactWriteSpannerDelete(row, m, eval, expr, AddValues, lastK) ==
    deleteEvaluated(m, Len(eval.Attributes) > 0 \/ expr # NoExpr,
                    evaluateConditionalExpression(row, m, eval, expr, AddValues, lastK),
                    AddValues, EmptyMap)

\* The value TransactWriteSpannerAdd writes for a key of tmpMap the row read
\* has: the sum for a float64 cell, the union (in the order the map of the
\* elements is ranged over) for a []interface{} cell, else the given value.
transactAddValue(v1, v, order) ==
    IF IsFloat(v1) THEN F(FAdd(v1.F, v.F))
    ELSE IF IsList(v1) THEN L(order)
    ELSE v
transactAddMerged(tmpMap, rs, pValue, order) ==
    MapPut([k \in DOMAIN tmpMap |->
               IF k \in DOMAIN rs THEN transactAddValue(rs[k], tmpMap[k], order)
               ELSE tmpMap[k]],
           PartitionKey, pValue)

\* TransactWriteSpannerAdd from the read of the row on. The check for
\* infinity is made on the operand m[k], not on the sum.
transactAddRead(m1, r, rs, tmpMap, AddValues, allCols, cn, order) ==
    IF r = NoRow
    THEN Result(m1, ResourceNotFoundException, NoMut, AddValues, EmptyMap, EmptyMap,
                TRUE, allCols, cn)
    ELSE IF \E k \in DOMAIN tmpMap : k \in DOMAIN rs /\ IsFloat(rs[k]) /\ ~IsFloat(tmpMap[k])
    THEN Result(m1, ValidationException, NoMut, AddValues, EmptyMap, EmptyMap,
                TRUE, allCols, cn)
    ELSE IF \E k \in DOMAIN tmpMap : k \in DOMAIN rs /\ IsList(rs[k]) /\ ~IsList(tmpMap[k])
    THEN Result(m1, "panic", NoMut, AddValues, EmptyMap, EmptyMap, TRUE, allCols, cn)
    ELSE IF \E k \in DOMAIN tmpMap :
                k \in DOMAIN rs /\ IsFloat(rs[k]) /\ checkInifinty(m1[k].F) # NoErr
    THEN Result(m1, ValidationException, NoMut, AddValues, EmptyMap, EmptyMap,
                TRUE, allCols, cn)
    ELSE Result(m1, NoErr,
                InsertOrUpdateMap(KeyOf(m1),
                                  transactAddMerged(tmpMap, rs, MapGet(m1, PartitionKey), order)),
                AddValues, EmptyMap,
                transactAddMerged(tmpMap, rs, MapGet(m1, PartitionKey), order),
                TRUE, allCols, cn)
transactAddRow(m1, r, tmpMap, AddValues, allCols, cn, order) ==
    transactAddRead(m1, r, parseRow(r), tmpMap, AddValues, allCols, cn, order)
transactAddEvaluated(row, m1, cols, guard, ev, AddValues, order) ==
    IF guard /\ ~ev.status
    THEN Result(m1, ConditionalCheckFailedException, NoMut, ev.AddValues, EmptyMap,
                EmptyMap, ev.read, ev.cols, condOf(guard, ev))
    ELSE transactAddRow(m1, ReadRow(row, cols \cap ColumnSet), IF guard THEN ev.m ELSE m1,
                        IF guard THEN ev.AddValues ELSE AddValues,
                        cols \cup (IF guard THEN ev.cols ELSE {}), condOf(guard, ev), order)

\* TransactWriteSpannerAdd
TransactWriteSpannerAdd(row, m1, eval, expr, AddValues, lastK, order) ==
    transactAddEvaluated(row, m1, (DOMAIN m1) \ {PartitionKey, SortKey},
                         Len(eval.Attributes) > 0 \/ expr # NoExpr,
                         evaluateConditionalExpression(row, m1, eval, expr, AddValues, lastK),
                         AddValues, order)

\* TransactWriteSpannerDel: the code of the callback of SpannerDel
TransactWriteSpannerDel(row, m1, eval, expr, AddValues, lastK, order) ==
    delEvaluated(row, m1, [k \in (DOMAIN m1) \ {PartitionKey, SortKey} |-> m1[k]],
                 Len(eval.Attributes) > 0 \/ expr # NoExpr,
                 evaluateConditionalExpression(row, m1, eval, expr, AddValues, lastK),
                 AddValues, EmptyMap, order)

\* The text of a REMOVE target, which TransactWriteSpannerRemove takes for the
\* name of a column: that of a target path[i] names no column
targetText(target) == IF IsListTarget(target) THEN target.col \o "[]" ELSE target.col

\* TransactWriteSpannerRemove without the test of the condition's status
transactRemoveUnconditional(m, guard, ev, colsToRemove, AddValues) ==
    Result(IF guard THEN ev.m ELSE m, NoErr,
           InsertOrUpdateMap(KeyOf(m),
               MapMerge(m, [c \in {targetText(colsToRemove[i]) : i \in 1..Len(colsToRemove)}
                               |-> Nil])),
           IF guard THEN ev.AddValues ELSE AddValues, EmptyMap, EmptyMap,
           guard /\ ev.read, IF guard THEN ev.cols ELSE {}, condOf(guard, ev))

\* TransactWriteSpannerRemove from the evaluation of the condition on: every
\* target is set to NULL in a copy of m taken before the evaluation.
transactRemoveEvaluated(m, guard, ev, colsToRemove, AddValues) ==
    IF guard /\ ~ev.status
    THEN Result(ev.m, ConditionalCheckFailedException, NoMut, ev.AddValues, EmptyMap,
                EmptyMap, ev.read, ev.cols, condOf(guard, ev))
    ELSE Result(IF guard THEN ev.m ELSE m, NoErr,
                InsertOrUpdateMap(KeyOf(m),
                    MapMerge(m, [c \in {targetText(colsToRemove[i]) :
                                           i \in 1..Len(colsToRemove)} |-> Nil])),
                IF guard THEN ev.AddValues ELSE AddValues, EmptyMap, EmptyMap,
                guard /\ ev.read, IF guard THEN ev.cols ELSE {}, condOf(guard, ev))

\* TransactWriteSpannerRemove
TransactWriteSpannerRemove(row, m, eval, expr, AddValues, colsToRemove, lastK) ==
    transactRemoveEvaluated(m, Len(eval.Attributes) > 0 \/ expr # NoExpr,
                            evaluateConditionalExpression(row, m, eval, expr, AddValues, lastK),
                            colsToRemove, AddValues)

\* ------------------------------------------------------------------ the backend

\* The row a key has when no column is set
NullRow(k) == [c \in ColumnSet |-> IF c = PartitionKey THEN S(k) ELSE Nil]

\* Whether the backend can encode value v for column c: NULL for any column
\* but the key, else the value of the column's type (a list column is written
\* as its JSON text).
encodable(c, v) ==
    /\ c \in ColumnSet
    /\ CASE TableDDL[c] = "S" -> DOMAIN v = {"S"}
         [] TableDDL[c] = "N" -> v = Nil \/ IsFloat(v)
         [] TableDDL[c] = "L" -> v = Nil \/ IsJSON(v)
         [] TableDDL[c] = "SS" -> v = Nil \/ IsStrings(v)
         [] TableDDL[c] = "M" -> v = Nil \/ IsMap(v)

\* Whether a commit of the mutation succeeds
canApply(mut) ==
    IF mut.kind = "Delete" THEN mut.key # "nokey"
    ELSE /\ mut.key # "nokey"
         /\ \A c \in DOMAIN mut.map : encodable(c, mut.map[c])

\* The row of the key after the mutation is applied
applyMutation(row, mut) ==
    IF mut.kind = "Delete" THEN NoRow
    ELSE LET base == IF row = NoRow THEN NullRow(mut.key) ELSE row
         IN  [c \in ColumnSet |-> IF c \in DOMAIN mut.map THEN mut.map[c] ELSE base[c]]

\* SpannerGet with no projection: the whole row, decoded, and its raw map
SpannerGet(row) ==
    [rs |-> parseRow(ReadRow(row, ColumnSet)),
     spannerRow |-> parseRowSpanner(ReadRow(row, ColumnSet))]

\* ------------------------------------------------------------------ requests

Clients == {"c1", "c2"}
TheKey == "1"
KeyMap == [x \in {PartitionKey} |-> S(TheKey)]

Request(op, m, eval, expr, AddValues, colsToRemove) ==
    [op |-> op, m |-> m, eval |-> eval, expr |-> expr, AddValues |-> AddValues,
     colsToRemove |-> colsToRemove]
NoReq == [op |-> "none"]

\* an update expression with no SET clause: expr is not nil and has nothing in it
EmptyExpr == Expr(<<>>, <<>>, EmptyMap)
\* SET n = n + :incr
IncrExpr == Expr(<<"n">>, <<Stmt("", "n")>>, [x \in {"n"} |-> 2])

PutRequests ==
    { Request("Put", MapPut(KeyMap, "n", F(5)), NoCondition, NoExpr, EmptyMap, <<>>),
      Request("Put", MapPut(KeyMap, "n", F(5)), CondFn("attribute_not_exists", "id"),
              NoExpr, EmptyMap, <<>>),
      Request("Put", MapPut(KeyMap, "mp.x", S("v")), CondFn("attribute_exists", "id"),
              NoExpr, EmptyMap, <<>>),
      Request("Put", KeyMap, CondLess("n", 3), IncrExpr, IncrExpr.AddValues, <<>>) }
DeleteRequests ==
    { Request("Delete", KeyMap, NoCondition, NoExpr, EmptyMap, <<>>),
      Request("Delete", KeyMap, CondLess("n", 3), NoExpr, EmptyMap, <<>>) }
AddRequests ==
    { Request("Add", MapPut(KeyMap, "n", F(2)), NoCondition, NoExpr, EmptyMap, <<>>),
      Request("Add", MapPut(KeyMap, "n", F(3)), CondFn("attribute_exists", "l"),
              EmptyExpr, EmptyMap, <<>>) }
DelRequests ==
    { Request("Del", MapPut(KeyMap, "s", SS(<<"x">>)), NoCondition, NoExpr, EmptyMap, <<>>),
      Request("Del", MapPut(KeyMap, "l", L(<<"a">>)), CondFn("attribute_exists", "l"),
              NoExpr, EmptyMap, <<>>) }
RemoveRequests ==
    { Request("Remove", KeyMap, NoCondition, EmptyExpr, EmptyMap, <<Target("l", 0)>>),
      Request("Remove", KeyMap, CondLess("n", 3), EmptyExpr, EmptyMap, <<Target("n", 0 - 1)>>) }

\* The rows the key can have at the start
InitRows ==
    { NoRow,
      [id |-> S(TheKey), n |-> F(1), l |-> J(<<"a", "b", "c">>),
       s |-> SS(<<"x", "y">>), mp |-> M([x \in {"y"} |-> S("w")])],
      [id |-> S(TheKey), n |-> Nil, l |-> Nil, s |-> Nil, mp |-> Nil] }

\* ------------------------------------------------------------------ queries

MaxRows == 4
MaxLimit == 3
MaxQueries == 3
DefaultLimit == 5000
\* models.GlobalConfig.Spanner.QueryLimit, which Scan takes for a Limit of 0
QueryLimit == 5000

\* config.GetTableConf(Table): the table's keys and its indices, one with a
\* sort key and one without
IndexName == "by-n"
SortedIndexName == "by-n-id"
Indices ==
    [x \in {IndexName, SortedIndexName} |->
        IF x = IndexName THEN [PartitionKey |-> "n", SortKey |-> ""]
        ELSE [PartitionKey |-> "n", SortKey |-> "id"]]
NoIndex == [PartitionKey |-> "", SortKey |-> ""]

\* models.Query. StartFrom is NoStart (nil) or a map with an offset.
NoStart == [NOSTART |-> TRUE]
Query(limit, startFrom, projectionExpression, names, indexName, onlyCount, asc) ==
    [TableName |-> Table, IndexName |-> indexName, Limit |-> limit,
     StartFrom |-> startFrom, ProjectionExpression |-> projectionExpression,
     ExpressionAttributeNames |-> names, OnlyCount |-> onlyCount,
     SortAscending |-> asc]

\* linq.From(a).IntersectByT(b): the distinct elements of a that b has, in
\* the order of a
RECURSIVE IntersectByT(_, _)
IntersectByT(a, b) ==
    IF a = <<>> THEN <<>>
    ELSE LET rest == IntersectByT(SubSeq(a, 1, Len(a) - 1), b)
             x == a[Len(a)]
         IN  IF x \in b /\ x \notin Range(rest) THEN Append(rest, x) ELSE rest

\* A projection expression is the sequence of the names between its commas.
substituted(projectionExpression, names) ==
    [i \in 1..Len(projectionExpression) |->
        IF projectionExpression[i] \in DOMAIN names
        THEN names[projectionExpression[i]] ELSE projectionExpression[i]]
\* getSpannerProjections without the intersection with the table's columns
getSpannerProjectionsAll(projectionExpression, table, names) ==
    substituted(projectionExpression, names)
getSpannerProjections(projectionExpression, table, names) ==
    IF projectionExpression = <<>> THEN <<>>
    ELSE IntersectByT(substituted(projectionExpression, names),
                      IF table = Table THEN ColumnSet ELSE {})

appendMissing(cols, key) == IF key \in Range(cols) THEN cols ELSE Append(cols, key)
\* the keys parseSpannerColumns adds to a projection: pKey, sKey if there is
\* one, and tPkey if it is not pKey
withSKey(cols, sKey) == IF sKey # "" THEN appendMissing(cols, sKey) ELSE cols
withTPKey(cols, tPkey, pKey) == IF tPkey # pKey THEN appendMissing(cols, tPkey) ELSE cols
withKeys(cols, tPkey, pKey, sKey) ==
    withTPKey(withSKey(appendMissing(cols, pKey), sKey), tPkey, pKey)

\* parseSpannerColumns: [cols, colStr, isCountQuery], colStr the columns the
\* SELECT list names
parseSpannerColumns(query, tPkey, pKey, sKey) ==
    IF query.OnlyCount
    THEN [cols |-> <<"count">>, colStr |-> <<"COUNT">>, isCountQuery |-> TRUE]
    ELSE LET cols == IF query.ProjectionExpression # <<>>
                     THEN withKeys(getSpannerProjections(query.ProjectionExpression,
                                                         query.TableName,
                                                         query.ExpressionAttributeNames),
                                   tPkey, pKey, sKey)
                     ELSE TableColumnMap
         IN  [cols |-> cols,
              colStr |-> SelectSeq(cols, LAMBDA c : c # "commit_timestamp"),
              isCountQuery |-> FALSE]

\* parseOffset that finds no offset in the start key
parseOffsetNone(query) == 0

\* parseOffset: the offset of the statement, 0 for none
parseOffset(query) == IF query.StartFrom # NoStart THEN query.StartFrom.offset ELSE 0

\* parseSpannerSorting: the ORDER BY clause, or none
NoOrder == [NOORDER |-> TRUE]
parseSpannerSorting(query, isCountQuery, pKey, sKey) ==
    IF isCountQuery \/ sKey = "" THEN NoOrder
    ELSE [col |-> sKey, asc |-> query.SortAscending]

\* parseLimit: the LIMIT of the statement, or none
NoLimit == 0 - 1
parseLimit(query, isCountQuery) ==
    IF isCountQuery THEN NoLimit
    ELSE IF query.Limit = 0 THEN DefaultLimit
    ELSE query.Limit

\* parseSpannerTableName: the table and the index forced
parseSpannerTableName(query) == [table |-> query.TableName, index |-> query.IndexName]

\* strings.Replace(query.IndexName, "-", "_", -1) on the index names of the model
replaceDashes(name) ==
    IF name = "by-n" THEN "by_n"
    ELSE IF name = "by-n-id" THEN "by_n_id"
    ELSE IF name = "by-zz" THEN "by_zz"
    ELSE name

\* createSpannerQuery: the statement, and cols, isCountQuery, offset
createSpannerQuery(query, tPkey, pKey, sKey) ==
    LET parsed == parseSpannerColumns(query, tPkey, pKey, sKey)
    IN  [stmt |-> [select |-> parsed.colStr,
                   from |-> parseSpannerTableName(query),
                   orderBy |-> parseSpannerSorting(query, parsed.isCountQuery, pKey, sKey),
                   limit |-> parseLimit(query, parsed.isCountQuery),
                   offset |-> parseOffset(query)],
         cols |-> parsed.cols, isCountQuery |-> parsed.isCountQuery,
         offset |-> parseOffset(query)]

\* The rows of the table that match a query: row i has n = i
RowIds == <<"r1", "r2", "r3", "r4", "r5", "r6">>
queryRow(i) == [id |-> S(RowIds[i]), n |-> F(i), l |-> Nil, s |-> SS(<<"x">>), mp |-> Nil]
Reverse(s) == [i \in 1..Len(s) |-> s[Len(s) + 1 - i]]
\* rows a window of a sequence: offset skipped, at most limit taken
window(s, offset, limit) ==
    SubSeq(s, offset + 1,
           IF limit = NoLimit \/ offset + limit > Len(s) THEN Len(s) ELSE offset + limit)

\* ExecuteSpannerQuery: the backend runs the statement on `total` matching
\* rows and each row is decoded. A count gives one row, which an OFFSET skips.
ExecuteSpannerQuery(isCountQuery, stmt, total) ==
    IF isCountQuery
    THEN window(<<[Count |-> total, Items |-> <<>>, LastEvaluatedKey |-> Nil]>>,
                stmt.offset, NoLimit)
    ELSE LET all == [i \in 1..total |-> parseRow(ReadRow(queryRow(i), Range(stmt.select)))]
             ordered == IF stmt.orderBy # NoOrder /\ ~stmt.orderBy.asc
                        THEN Reverse(all) ELSE all
         IN  window(ordered, stmt.offset, stmt.limit)

\* The keys QueryAttributes works with: those of the index if the query
\* names one that is declared, else those of the table
queryKeys(query) ==
    LET conf == IF query.IndexName \in DOMAIN Indices THEN Indices[query.IndexName]
                ELSE NoIndex
    IN  IF query.IndexName # "" /\ conf.PartitionKey # ""
        THEN [pKey |-> conf.PartitionKey, sKey |-> conf.SortKey, tPKey |-> PartitionKey,
              tSKey |-> SortKey]
        ELSE [pKey |-> PartitionKey, sKey |-> SortKey, tPKey |-> PartitionKey,
              tSKey |-> SortKey]

\* The map literal of a LastEvaluatedKey: the offset and the keys of `last`
keyFields(offset, last, keys) ==
    LET base == MapPut(MapPut(MapPut(EmptyMap, "offset", GoInt(offset)),
                              keys.pKey, MapGet(last, keys.pKey)),
                       keys.tPKey, MapGet(last, keys.tPKey))
    IN  IF keys.sKey # ""
        THEN MapPut(MapPut(base, keys.sKey, MapGet(last, keys.sKey)),
                    keys.tSKey, MapGet(last, keys.tSKey))
        ELSE base
\* a LastEvaluatedKey that keeps the start offset
lastEvaluatedKeySameOffset(originalLimit, offset, last, keys) ==
    keyFields(offset, last, keys)
\* The LastEvaluatedKey of a page whose last row is `last`
lastEvaluatedKey(originalLimit, offset, last, keys) ==
    keyFields(originalLimit + offset, last, keys)

\* queryResponse that hands on the rows of the backend as they are
queryResponseAllRows(resp, isCountQuery, originalLimit, offset, keys) ==
    IF Len(resp) = 0
    THEN [kind |-> "ok",
          finalResp |-> [Count |-> 0, Items |-> <<>>, LastEvaluatedKey |-> Nil]]
    ELSE [kind |-> "ok",
          finalResp |-> [Count |-> Len(resp), Items |-> resp, LastEvaluatedKey |-> Nil]]

\* QueryAttributes from the backend's answer on: a response, or a panic on
\* an index out of range (resp[0] of no rows, resp[length-2] of one row).
queryResponse(resp, isCountQuery, originalLimit, offset, keys) ==
    IF isCountQuery
    THEN IF Len(resp) = 0 THEN [kind |-> "panic"]
         ELSE [kind |-> "ok", finalResp |-> resp[1]]
    ELSE IF Len(resp) = 0
    THEN [kind |-> "ok",
          finalResp |-> [Count |-> 0, Items |-> <<>>, LastEvaluatedKey |-> Nil]]
    ELSE IF Len(resp) > originalLimit
    THEN IF Len(resp) - 2 < 0 THEN [kind |-> "panic"]
         ELSE [kind |-> "ok",
               finalResp |-> [Count |-> Len(resp) - 1,
                              Items |-> SubSeq(resp, 1, Len(resp) - 1),
                              LastEvaluatedKey |->
                                  lastEvaluatedKey(originalLimit, offset,
                                                   resp[Len(resp) - 1], keys)]]
    ELSE [kind |-> "ok",
          finalResp |-> [Count |-> Len(resp), Items |-> resp, LastEvaluatedKey |-> Nil]]

\* QueryAttributes from the statement on (created: what createSpannerQuery
\* gave). ExecuteSpannerQuery knows no DDL of a table that is not the
\* backend's; the backend refuses a statement that forces an index it has
\* not or selects a column the table has not.
queryCreated(created, rows, originalLimit, keys) ==
    [stmt |-> created.stmt, cols |-> created.cols, rows |-> rows, keys |-> keys,
     out |-> queryResponse(rows, created.isCountQuery, originalLimit, created.offset, keys)]
queryExecuted(created, total, originalLimit, keys) ==
    IF \/ created.stmt.from.table # Table
       \/ created.stmt.from.index \notin {"", "by_n", "by_n_id"}
       \/ ~created.isCountQuery /\ ~(Range(created.stmt.select) \subseteq ColumnSet)
    THEN [stmt |-> created.stmt, cols |-> created.cols, rows |-> <<>>, keys |-> keys,
          out |-> [kind |-> "error"]]
    ELSE queryCreated(created,
                      ExecuteSpannerQuery(created.isCountQuery, created.stmt, total),
                      originalLimit, keys)

\* config.GetTableConf: the configuration of a logical table, whose
\* ActualTable names the table of the backend
LogicalTable == "orders"
GetTableConf(tableName) ==
    [ActualTable |-> Table, PartitionKey |-> PartitionKey, SortKey |-> SortKey,
     Indices |-> Indices]
\* query.TableName as QueryAttributes leaves it: ActualTable takes its place
\* in the branch of a query that names an index
queryTableName(query) ==
    IF query.IndexName # ""
    THEN IF GetTableConf(query.TableName).ActualTable # query.TableName
         THEN GetTableConf(query.TableName).ActualTable
         ELSE query.TableName
    ELSE query.TableName

\* QueryAttributes on `total` matching rows: [stmt, cols, rows, keys, out].
\* The statement is made of the query with Limit + 1 for its Limit.
QueryAttributes(query, total) ==
    queryExecuted(createSpannerQuery([query EXCEPT !.Limit = query.Limit + 1,
                                                   !.IndexName = replaceDashes(query.IndexName),
                                                   !.TableName = queryTableName(query)],
                                     queryKeys(query).tPKey, queryKeys(query).pKey,
                                     queryKeys(query).sKey),
                  total, query.Limit, queryKeys(query))


\* ------------------------------------------------------------------ the state

VARIABLES
    db,      \* the row of TheKey in the backend, or NoRow
    pc,      \* per client: "idle", "ready" (the callback is to run),
             \* "buffered" (a mutation waits for the commit), "done"
    req,     \* per client: the request in progress
    loc,     \* per client: the maps of the call, which live across the runs
             \* of the callback, and what the last run left (mut: the mutation
             \* built last, muts: the mutations a batch has collected)
    ghost,   \* per client: the row the last run of the callback saw, what the
             \* condition evaluated to, whether the call has written
    resp,    \* per client: what the last finished call returned (req, err,
             \* item), the row before and after it, the runs of its callback,
             \* and the same of the call before it
    calls,   \* the calls started
    hist,    \* the row at the start, the increments of the ADDs committed,
             \* the aborts the backend has raised of itself
    qs,      \* the query side: the rows the backend holds for the query, the
             \* query made last, the statement issued for it and what
             \* QueryAttributes returned
    es,      \* the evaluation of a condition function on a row read: the
             \* row, the function, the column, and the value it gave
    tg,      \* TransactGetItems: the rows of the tables, the request items
             \* and the responses collected
    sv,      \* a call of the service layer: its arguments, where it stands,
             \* the backend calls it has made and the error it returned
    fp,      \* the statements createSpannerQuery made for one Query request
    gi       \* GetServiceInstance: the once guard, the instance held and
             \* the goroutines that call it

\* The sides of the model that the write path, the queries and the row
\* evaluation leave alone
others == <<tg, sv, fp, gi>>

vars == <<db, pc, req, loc, ghost, resp, calls, hist, qs, es, tg, sv, fp, gi>>

NoLoc == [m |-> EmptyMap, AddValues |-> EmptyMap, oldRes |-> EmptyMap,
          spannerRow |-> EmptyMap, update |-> EmptyMap, mut |-> NoMut,
          muts |-> <<>>, err |-> NoErr, read |-> FALSE, cols |-> {}]
NoGhost == [cond |-> "none", txnRow |-> NoRow, before |-> NoRow, preRow |-> NoRow,
            wrote |-> FALSE, runs |-> 0]
NoPrev == [req |-> NoReq, err |-> NoErr, item |-> EmptyMap, row |-> NoRow,
           preRow |-> NoRow, runs |-> 0]
NoResp == [req |-> NoReq, err |-> NoErr, item |-> EmptyMap, row |-> NoRow,
           preRow |-> NoRow, runs |-> 0, prev |-> NoPrev]

NoQs == [pc |-> "off"]
NoEs == [pc |-> "off"]
NoTg == [pc |-> "off"]
NoSv == [pc |-> "off"]
NoFp == [pc |-> "off"]
NoGi == [pc |-> "off"]
othersOff == tg = NoTg /\ sv = NoSv /\ fp = NoFp /\ gi = NoGi

Init ==
    /\ qs = NoQs
    /\ es = NoEs
    /\ othersOff
    /\ db \in InitRows
    /\ pc = [p \in Clients |-> "idle"]
    /\ req = [p \in Clients |-> NoReq]
    /\ loc = [p \in Clients |-> NoLoc]
    /\ ghost = [p \in Clients |-> NoGhost]
    /\ resp = [p \in Clients |-> NoResp]
    /\ calls = 0
    /\ hist = [init |-> db, sum |-> 0, aborts |-> 0]

\* A client starts a call: the caller reads the row (SpannerGet, outside any
\* transaction) for oldRes and spannerRow and hands the request on.
Start(p, r) ==
    /\ pc[p] = "idle"
    /\ calls < MaxCalls
    /\ pc' = [pc EXCEPT ![p] = "ready"]
    /\ req' = [req EXCEPT ![p] = r]
    /\ loc' = [loc EXCEPT ![p] = [NoLoc EXCEPT !.m = r.m, !.AddValues = r.AddValues,
                                               !.oldRes = SpannerGet(db).rs,
                                               !.spannerRow = SpannerGet(db).spannerRow]]
    /\ ghost' = [ghost EXCEPT ![p] = [NoGhost EXCEPT !.preRow = db]]
    /\ calls' = calls + 1
    /\ UNCHANGED <<db, resp, hist, qs, es, others>>

StartPut(p) == \E r \in PutRequests : Start(p, r)
StartDelete(p) == \E r \in DeleteRequests : Start(p, r)
StartAdd(p) == \E r \in AddRequests : Start(p, r)
StartDel(p) == \E r \in DelRequests : Start(p, r)
StartRemove(p) == \E r \in RemoveRequests : Start(p, r)

\* The keys expr.AddValues can be ranged over last
lastKeys(AddValues) == IF DOMAIN AddValues = {} THEN {""} ELSE DOMAIN AddValues

\* One run of the callback of the call, on the row `row`, with the maps m,
\* AddValues, oldRes, spannerRow and update as the call holds them.
callback(r, row, m, AddValues, oldRes, spannerRow, update, lastK, order) ==
    CASE r.op = "Put" ->
            SpannerPut(row, m, r.eval, r.expr, AddValues, spannerRow, oldRes, update, lastK)
      [] r.op = "Delete" ->
            SpannerDelete(row, m, r.eval, r.expr, AddValues, oldRes, lastK)
      [] r.op = "Add" ->
            SpannerAdd(row, m, r.eval, r.expr, AddValues, oldRes, update, lastK)
      [] r.op = "Del" ->
            SpannerDel(row, m, r.eval, r.expr, AddValues, oldRes, lastK, order)
      [] r.op = "Remove" ->
            SpannerRemove(row, m, r.eval, r.expr, AddValues, r.colsToRemove, oldRes, lastK)

\* A run of the callback whose error makes the transaction run it again
afterRunRetried(p, res) ==
    /\ loc' = [loc EXCEPT ![p] =
                  [m |-> res.m, AddValues |-> res.AddValues,
                   oldRes |-> res.oldRes, spannerRow |-> loc[p].spannerRow,
                   update |-> res.update, mut |-> res.mut, muts |-> <<>>,
                   err |-> res.err, read |-> res.read, cols |-> res.cols]]
    /\ ghost' = [ghost EXCEPT ![p].cond = res.cond, ![p].txnRow = db,
                              ![p].before = db, ![p].runs = @ + 1]
    /\ pc' = [pc EXCEPT ![p] = IF res.err = NoErr THEN "buffered" ELSE "ready"]

\* What a run of the callback that gave res leaves
afterRun(p, res) ==
    /\ loc' = [loc EXCEPT ![p] =
                  [m |-> res.m, AddValues |-> res.AddValues,
                   oldRes |-> res.oldRes, spannerRow |-> loc[p].spannerRow,
                   update |-> res.update, mut |-> res.mut, muts |-> <<>>,
                   err |-> res.err, read |-> res.read, cols |-> res.cols]]
    /\ ghost' = [ghost EXCEPT ![p].cond = res.cond, ![p].txnRow = db,
                              ![p].before = db, ![p].runs = @ + 1]
    /\ pc' = [pc EXCEPT ![p] = IF res.err = NoErr THEN "buffered" ELSE "done"]

\* The transaction runs the callback: it reads the row as the backend has it
\* and either buffers a mutation or returns an error, which ends the call.
RunCallback(p) ==
    /\ pc[p] = "ready"
    /\ \E lastK \in lastKeys(loc[p].AddValues) :
       \E order \in Orders(IF req[p].op = "Del"
                           THEN delListRemaining(db, loc[p].m) ELSE {}) :
          afterRun(p, callback(req[p], db, loc[p].m, loc[p].AddValues, loc[p].oldRes,
                               loc[p].spannerRow, loc[p].update, lastK, order))
    /\ UNCHANGED <<db, req, resp, calls, hist, qs, es, others>>

\* Whether what the transaction read is still what the backend has
readsValid(p) ==
    ~loc[p].read \/ ReadRow(db, loc[p].cols) = ReadRow(ghost[p].txnRow, loc[p].cols)

\* The increment a committed ADD has made to column n
increment(p) ==
    IF req[p].op = "Add" /\ "n" \in DOMAIN req[p].m /\ IsFloat(req[p].m["n"])
    THEN req[p].m["n"].F ELSE 0

\* The commit: the mutation is applied if what was read still stands; if not
\* the backend aborts the transaction and the callback runs again. A mutation
\* the backend cannot encode fails the commit.
Commit(p) ==
    /\ pc[p] = "buffered"
    /\ IF ~readsValid(p)
       THEN /\ pc' = [pc EXCEPT ![p] = "ready"]
            /\ UNCHANGED <<db, loc, ghost, hist>>
       ELSE IF ~canApply(loc[p].mut)
       THEN /\ pc' = [pc EXCEPT ![p] = "done"]
            /\ loc' = [loc EXCEPT ![p].err = "InternalServerError"]
            /\ UNCHANGED <<db, ghost, hist>>
       ELSE /\ pc' = [pc EXCEPT ![p] = "done"]
            /\ db' = applyMutation(db, loc[p].mut)
            /\ ghost' = [ghost EXCEPT ![p].wrote = TRUE, ![p].before = db]
            /\ hist' = [hist EXCEPT !.sum = @ + increment(p)]
            /\ UNCHANGED loc
    /\ UNCHANGED <<req, resp, calls, qs, es, others>>

\* The backend aborts a transaction of itself; the callback runs again.
Abort(p) ==
    /\ pc[p] = "buffered"
    /\ hist.aborts < MaxAborts
    /\ pc' = [pc EXCEPT ![p] = "ready"]
    /\ hist' = [hist EXCEPT !.aborts = @ + 1]
    /\ UNCHANGED <<db, req, loc, ghost, resp, calls, qs, es, others>>

\* services.Remove after SpannerRemove: the map returned is oldRes, as the
\* callback left it, without the plain columns removed.
removeResponse(oldRes, colsToRemove) ==
    [k \in (DOMAIN oldRes) \ {colsToRemove[i].col :
                                 i \in {j \in 1..Len(colsToRemove) :
                                           ~IsListTarget(colsToRemove[j])}}
        |-> oldRes[k]]

\* What the service layer returns for a call that went through:
\* services.Put and services.Add merge the map of the operation over oldRes,
\* services.Del reads the row again, services.Remove gives removeResponse.
response(r, l, row) ==
    CASE r.op = "Put" -> MapMerge(l.oldRes, l.update)
      [] r.op = "Add" -> MapMerge(l.oldRes, l.update)
      [] r.op = "Del" -> SpannerGet(row).rs
      [] r.op = "Remove" -> removeResponse(l.oldRes, r.colsToRemove)
      [] r.op = "Delete" -> EmptyMap
      [] r.op = "Batch" -> EmptyMap

\* The call returns to the caller.
Finish(p) ==
    /\ pc[p] = "done"
    /\ pc' = [pc EXCEPT ![p] = "idle"]
    /\ resp' = [resp EXCEPT ![p] =
                   [req |-> req[p], err |-> loc[p].err,
                    item |-> IF loc[p].err = NoErr THEN response(req[p], loc[p], db)
                             ELSE EmptyMap,
                    row |-> db, preRow |-> ghost[p].preRow, runs |-> ghost[p].runs,
                    prev |-> [req |-> resp[p].req, err |-> resp[p].err,
                              item |-> resp[p].item, row |-> resp[p].row,
                              preRow |-> resp[p].preRow, runs |-> resp[p].runs]]]
    /\ req' = [req EXCEPT ![p] = NoReq]
    /\ loc' = [loc EXCEPT ![p] = NoLoc]
    /\ ghost' = [ghost EXCEPT ![p] = NoGhost]
    /\ UNCHANGED <<db, calls, hist, qs, es, others>>

\* The REMOVE requests a client repeats
RepeatRequests ==
    { Request("Remove", KeyMap, c, EmptyExpr, EmptyMap, ts) :
        c \in {NoCondition, CondLess("n", 3)},
        ts \in { <<Target("l", 0)>>, <<Target("l", 1)>>, <<Target("l", 5)>>,
                 <<Target("n", 0 - 1)>>, <<Target("s", 0 - 1)>>,
                 <<Target("n", 0 - 1), Target("l", 0)>> } }

\* A client's first REMOVE, and the same REMOVE once more
StartRemoveFirst(p) ==
    /\ resp[p].req = NoReq
    /\ \E r \in RepeatRequests : Start(p, r)
StartRemoveAgain(p) ==
    /\ resp[p].req # NoReq
    /\ Start(p, resp[p].req)

Next ==
    \E p \in Clients :
        \/ StartPut(p)
        \/ StartDelete(p)
        \/ StartAdd(p)
        \/ StartDel(p)
        \/ StartRemove(p)
        \/ RunCallback(p)
        \/ Commit(p)
        \/ Abort(p)
        \/ Finish(p)

Spec == Init /\ [][Next]_vars

\* ---- TransactWriteItems

\* The sub-requests of the batches
TransactItems ==
    { Request("Put", MapPut(KeyMap, "n", F(5)), CondFn("attribute_not_exists", "id"),
              NoExpr, EmptyMap, <<>>),
      Request("Delete", KeyMap, CondLess("n", 3), NoExpr, EmptyMap, <<>>),
      Request("Add", MapPut(KeyMap, "n", F(2)), CondFn("attribute_exists", "l"),
              NoExpr, EmptyMap, <<>>),
      Request("Del", MapPut(KeyMap, "s", SS(<<"x">>)), CondFn("attribute_exists", "l"),
              NoExpr, EmptyMap, <<>>),
      Request("Remove", KeyMap, CondLess("n", 3), EmptyExpr, EmptyMap,
              <<Target("n", 0 - 1)>>) }
Batches ==
    {<<i>> : i \in TransactItems}
        \cup {b \in TransactItems \X TransactItems : b[1] # b[2]}

\* The builder of one sub-request, on the row the key has in the transaction
builder(r, row, oldRes, lastK, order) ==
    CASE r.op = "Put" ->
            SpannerTransactWritePut(row, r.m, r.eval, r.expr, r.AddValues, oldRes, lastK)
      [] r.op = "Delete" ->
            TransactWriteSpannerDelete(row, r.m, r.eval, r.expr, r.AddValues, lastK)
      [] r.op = "Add" ->
            TransactWriteSpannerAdd(row, r.m, r.eval, r.expr, r.AddValues, lastK, order)
      [] r.op = "Del" ->
            TransactWriteSpannerDel(row, r.m, r.eval, r.expr, r.AddValues, lastK, order)
      [] r.op = "Remove" ->
            TransactWriteSpannerRemove(row, r.m, r.eval, r.expr, r.AddValues,
                                       r.colsToRemove, lastK)

\* The callback of a batch: the sub-requests are built in order on the rows
\* of the one transaction; the first error ends the callback, and nothing is
\* buffered. Gives [err, mut, muts, cond, read, cols]: mut is what the builder
\* that ran last returned, muts the mutations collected before it.
\* (No sub-request of Batches has AddValues or works on a list column, so
\* that no order of a Go map is to choose.)
RECURSIVE batchLoop(_, _, _, _, _, _, _)
batchNext(index, items, row, oldRes, muts, cols, res) ==
    IF res.err # NoErr
    THEN [err |-> res.err, mut |-> res.mut, muts |-> muts, cond |-> res.cond,
          read |-> TRUE, cols |-> cols \cup res.cols]
    ELSE IF index = Len(items)
    THEN [err |-> NoErr, mut |-> res.mut, muts |-> Append(muts, res.mut),
          cond |-> res.cond, read |-> TRUE, cols |-> cols \cup res.cols]
    ELSE batchLoop(index + 1, items, row, oldRes, Append(muts, res.mut),
                   cols \cup res.cols, res.cond)
batchLoop(index, items, row, oldRes, muts, cols, cond) ==
    batchNext(index, items, row, oldRes, muts, cols,
              builder(items[index], row, oldRes, "", <<>>))

StartBatch(p) ==
    \E b \in Batches : Start(p, [op |-> "Batch", m |-> EmptyMap, AddValues |-> EmptyMap,
                                 items |-> b])

afterBatch(p, res) ==
    /\ loc' = [loc EXCEPT ![p].mut = res.mut, ![p].muts = res.muts, ![p].err = res.err,
                          ![p].read = res.read, ![p].cols = res.cols]
    /\ ghost' = [ghost EXCEPT ![p].cond = res.cond, ![p].txnRow = db,
                              ![p].before = db, ![p].runs = @ + 1]
    /\ pc' = [pc EXCEPT ![p] = IF res.err = NoErr THEN "buffered" ELSE "done"]

\* The transaction runs the callback of the batch.
RunBatch(p) ==
    /\ pc[p] = "ready"
    /\ req[p].op = "Batch"
    /\ afterBatch(p, batchLoop(1, req[p].items, db, loc[p].oldRes, <<>>, {}, "none"))
    /\ UNCHANGED <<db, req, resp, calls, hist, qs, es, others>>

\* The rows after the mutations of a batch are applied in order
RECURSIVE applyAll(_, _)
applyAll(row, muts) ==
    IF muts = <<>> THEN row ELSE applyAll(applyMutation(row, Head(muts)), Tail(muts))

\* The commit of a batch: all its mutations or none.
CommitBatch(p) ==
    /\ pc[p] = "buffered"
    /\ req[p].op = "Batch"
    /\ IF ~readsValid(p)
       THEN /\ pc' = [pc EXCEPT ![p] = "ready"]
            /\ UNCHANGED <<db, loc, ghost>>
       ELSE IF \E i \in 1..Len(loc[p].muts) : ~canApply(loc[p].muts[i])
       THEN /\ pc' = [pc EXCEPT ![p] = "done"]
            /\ loc' = [loc EXCEPT ![p].err = "InternalServerError"]
            /\ UNCHANGED <<db, ghost>>
       ELSE /\ pc' = [pc EXCEPT ![p] = "done"]
            /\ db' = applyAll(db, loc[p].muts)
            /\ ghost' = [ghost EXCEPT ![p].wrote = TRUE, ![p].before = db]
            /\ UNCHANGED loc
    /\ UNCHANGED <<req, resp, calls, hist, qs, es, others>>

NextTx ==
    \E p \in Clients :
        \/ StartBatch(p)
        \/ RunBatch(p)
        \/ CommitBatch(p)
        \/ Abort(p)
        \/ Finish(p)

SpecTx == Init /\ [][NextTx]_vars

\* Concurrent ADDs only
NextAdd ==
    \E p \in Clients :
        \/ StartAdd(p)
        \/ RunCallback(p)
        \/ Commit(p)
        \/ Abort(p)
        \/ Finish(p)

SpecAdd == Init /\ [][NextAdd]_vars

\* One client that makes the same REMOVE twice
NextRemove ==
    \/ StartRemoveFirst("c1")
    \/ StartRemoveAgain("c1")
    \/ RunCallback("c1")
    \/ Commit("c1")
    \/ Abort("c1")
    \/ Finish("c1")

SpecRemove == Init /\ [][NextRemove]_vars

\* Puts with an update expression of one and of two fields
ExprRequests ==
    { Request("Put", KeyMap, c, IncrExpr, IncrExpr.AddValues, <<>>) :
        c \in {NoCondition, CondLess("n", 3)} }
    \cup
    { Request("Put", MapPut(KeyMap, "s", SS(<<"z">>)), c,
              Expr(<<"n", "s">>, <<Stmt("", "n"), Stmt("if_not_exists", "s")>>,
                   [x \in {"n"} |-> 2]),
              [x \in {"n"} |-> 2], <<>>) :
        c \in {NoCondition, CondFn("attribute_exists", "l")} }
StartExpr(p) == \E r \in ExprRequests : Start(p, r)

NextExpr ==
    \E p \in Clients :
        \/ StartExpr(p)
        \/ RunCallback(p)
        \/ Commit(p)
        \/ Abort(p)
        \/ Finish(p)

SpecExpr == Init /\ [][NextExpr]_vars

\* ------------------------------------------------------------------ Query and Scan

\* The projections, placeholders and indices the callers use
Names == [x \in {"#a"} |-> "l"]
Projections == {<<>>, <<"n">>, <<"#a", "zz">>, <<"id", "s", "s">>}
IndexNames == {"", IndexName, SortedIndexName, "by-zz"}
StartKeys == {NoStart} \cup {[offset |-> k] : k \in 0..MaxRows}

NoFinal == [Count |-> 0, Items |-> <<>>, LastEvaluatedKey |-> Nil]

\* The table holds `total` matching rows, the same for all the calls.
InitQuery ==
    /\ qs \in {[pc |-> "idle", total |-> n, calls |-> 0] : n \in 0..MaxRows}
    /\ es = NoEs
    /\ othersOff
    /\ db = NoRow
    /\ pc = [p \in Clients |-> "idle"]
    /\ req = [p \in Clients |-> NoReq]
    /\ loc = [p \in Clients |-> NoLoc]
    /\ ghost = [p \in Clients |-> NoGhost]
    /\ resp = [p \in Clients |-> NoResp]
    /\ calls = 0
    /\ hist = [init |-> NoRow, sum |-> 0, aborts |-> 0]

\* qs after a call of QueryAttributes that gave res: limit is the Limit the
\* caller wrote, query the models.Query handed to QueryAttributes.
\* seen holds the items of the pages returned since the first call.
afterQuery(op, limit, query, res) ==
    [pc |-> IF res.out.kind = "ok" THEN "returned"
            ELSE IF res.out.kind = "panic" THEN "panicked" ELSE "failed",
     total |-> qs.total, calls |-> qs.calls + 1,
     op |-> op, limit |-> limit, query |-> query,
     stmt |-> res.stmt, cols |-> res.cols, rows |-> res.rows, keys |-> res.keys,
     finalResp |-> IF res.out.kind = "ok" THEN res.out.finalResp ELSE NoFinal,
     seen |-> (IF qs.pc = "idle" THEN <<>> ELSE qs.seen)
              \o (IF res.out.kind = "ok" /\ ~query.OnlyCount
                  THEN res.out.finalResp.Items ELSE <<>>)]

queryCall(op, limit, query) ==
    /\ qs.calls < MaxQueries
    /\ qs' = afterQuery(op, limit, query, QueryAttributes(query, qs.total))
    /\ UNCHANGED <<db, pc, req, loc, ghost, resp, calls, hist, es, others>>

\* A Query of the API, the first call of a caller
QueryCall ==
    /\ qs.pc = "idle"
    /\ \E limit \in 0..MaxLimit, startFrom \in StartKeys, projection \in Projections,
          indexName \in IndexNames, onlyCount \in BOOLEAN, asc \in BOOLEAN :
            queryCall("Query", limit,
                      Query(limit, startFrom, projection, Names, indexName, onlyCount, asc))

\* Scan: a query of the whole table, with QueryLimit for a Limit of 0
scanQuery(limit, startFrom, projection, names, indexName, onlyCount) ==
    Query(IF limit = 0 THEN QueryLimit ELSE limit, startFrom, projection, names,
          indexName, onlyCount, FALSE)
Scan ==
    /\ qs.pc = "idle"
    /\ \E limit \in 0..MaxLimit, startFrom \in StartKeys, projection \in Projections,
          indexName \in IndexNames, onlyCount \in BOOLEAN :
            queryCall("Scan", limit,
                      scanQuery(limit, startFrom, projection, Names, indexName, onlyCount))

\* The caller asks for the page that follows: the same query, with the
\* LastEvaluatedKey of the response for its start key.
NextPage ==
    /\ qs.pc = "returned"
    /\ ~qs.query.OnlyCount
    /\ qs.finalResp.LastEvaluatedKey # Nil
    /\ queryCall(qs.op, qs.limit,
                 [qs.query EXCEPT
                     !.StartFrom = [offset |-> qs.finalResp.LastEvaluatedKey["offset"].I]])

NextQuery ==
    \/ QueryCall
    \/ Scan
    \/ NextPage

SpecQuery == InitQuery /\ [][NextQuery]_vars

\* A Query on the table by its backend name or by its logical name
TableQuery ==
    /\ qs.pc = "idle"
    /\ \E tableName \in {Table, LogicalTable}, limit \in 1..MaxLimit,
          projection \in Projections, indexName \in IndexNames, onlyCount \in BOOLEAN :
            queryCall("Query", limit,
                      [Query(limit, NoStart, projection, Names, indexName, onlyCount, TRUE)
                          EXCEPT !.TableName = tableName])

NextTable ==
    \/ TableQuery
    \/ NextPage

SpecTable == InitQuery /\ [][NextTable]_vars

\* A caller that pages through a query on the index with a sort key: the
\* query with no start key, then the same query with the LastEvaluatedKey
\* of each response for its start key, until a response has none.
MaxPages == MaxRows + 1
pagingCall(query) ==
    /\ qs.calls < MaxPages
    /\ qs' = afterQuery("Query", query.Limit, query, QueryAttributes(query, qs.total))
    /\ UNCHANGED <<db, pc, req, loc, ghost, resp, calls, hist, es, others>>
FirstPage ==
    /\ qs.pc = "idle"
    /\ \E limit \in 1..MaxLimit, projection \in Projections, asc \in BOOLEAN :
          pagingCall(Query(limit, NoStart, projection, Names, SortedIndexName, FALSE, asc))
FollowingPage ==
    /\ qs.pc = "returned"
    /\ qs.finalResp.LastEvaluatedKey # Nil
    /\ pagingCall([qs.query EXCEPT
                      !.StartFrom = [offset |-> qs.finalResp.LastEvaluatedKey["offset"].I]])

NextPaging ==
    \/ FirstPage
    \/ FollowingPage

\* The caller does ask for the page that follows while a response has a
\* LastEvaluatedKey: weak fairness of FollowingPage, with canFollow for
\* ENABLED <<FollowingPage>>_vars.
canFollow ==
    /\ qs.pc = "returned"
    /\ qs.finalResp.LastEvaluatedKey # Nil
    /\ qs.calls < MaxPages
SpecPaging ==
    /\ InitQuery
    /\ [][NextPaging]_vars
    /\ ([]<>(~canFollow) \/ []<><<FollowingPage>>_vars)

\* ---- Reads of the query path after a write

\* ExecuteSpannerQuery reads with spanner.ExactStaleness(10 s): at the
\* timestamp Staleness ticks (of 5 s) before the time of the read.
Staleness == 2
MaxTime == 5
MaxWrites == 2
WriteRequests ==
    { Request("Put", MapPut(KeyMap, "n", F(5)), NoCondition, NoExpr, EmptyMap, <<>>),
      Request("Add", MapPut(KeyMap, "n", F(2)), NoCondition, NoExpr, EmptyMap, <<>>),
      Request("Delete", KeyMap, NoCondition, NoExpr, EmptyMap, <<>>) }

\* The row as of timestamp ts: that of the last version committed at or
\* before ts
rowAt(log, ts) ==
    log[CHOOSE i \in 1..Len(log) :
            /\ log[i].at <= ts
            /\ \A j \in (i + 1)..Len(log) : log[j].at > ts].row
\* Single().WithTimestampBound(ExactStaleness(...)).Query at time now: the
\* row decoded, or no row
staleQuery(log, now) ==
    IF rowAt(log, now - Staleness) = NoRow THEN <<>>
    ELSE <<parseRow(ReadRow(rowAt(log, now - Staleness), ColumnSet))>>
\* The same query on the rows as committed at time now
strongQuery(log, now) ==
    IF rowAt(log, now) = NoRow THEN <<>>
    ELSE <<parseRow(ReadRow(rowAt(log, now), ColumnSet))>>

\* The row was committed Staleness ticks ago or earlier; the clock stands
\* at `now`, log holds the versions committed, writes counts the writes.
InitStale ==
    /\ db \in InitRows
    /\ qs = [pc |-> "clock", now |-> Staleness, log |-> <<[at |-> 0, row |-> db]>>,
             writes |-> 0, rows |-> <<>>, wrote |-> FALSE]
    /\ es = NoEs
    /\ othersOff
    /\ pc = [p \in Clients |-> "idle"]
    /\ req = [p \in Clients |-> NoReq]
    /\ loc = [p \in Clients |-> NoLoc]
    /\ ghost = [p \in Clients |-> NoGhost]
    /\ resp = [p \in Clients |-> NoResp]
    /\ calls = 0
    /\ hist = [init |-> db, sum |-> 0, aborts |-> 0]

Tick ==
    /\ qs.now < MaxTime
    /\ qs' = [qs EXCEPT !.now = @ + 1, !.pc = "clock"]
    /\ UNCHANGED <<db, pc, req, loc, ghost, resp, calls, hist, es, others>>

\* A write whose transaction commits at time now: res is what the callback
\* gave on the row as stored
committed(res) ==
    /\ res.err = NoErr
    /\ canApply(res.mut)
    /\ db' = applyMutation(db, res.mut)
    /\ qs' = [qs EXCEPT !.pc = "written", !.writes = @ + 1, !.wrote = TRUE,
                        !.log = Append(@, [at |-> qs.now,
                                           row |-> applyMutation(db, res.mut)])]
CommittedWrite ==
    /\ qs.writes < MaxWrites
    /\ \E r \in WriteRequests :
          committed(callback(r, db, r.m, r.AddValues, SpannerGet(db).rs,
                             SpannerGet(db).spannerRow, EmptyMap, "", <<>>))
    /\ UNCHANGED <<pc, req, loc, ghost, resp, calls, hist, es, others>>

\* A Query or Scan that starts at time now
StaleQuery ==
    /\ qs.pc # "queried"
    /\ qs' = [qs EXCEPT !.pc = "queried", !.rows = staleQuery(qs.log, qs.now)]
    /\ UNCHANGED <<db, pc, req, loc, ghost, resp, calls, hist, es, others>>

NextStale ==
    \/ Tick
    \/ CommittedWrite
    \/ StaleQuery

SpecStale == InitStale /\ [][NextStale]_vars

\* ------------------------------------------------------------------ conditions on a row

\* The rows a condition can find: none, or one whose columns other than the
\* key are NULL or not
EvalRows ==
    {NoRow} \cup
    { [id |-> S(TheKey), n |-> IF "n" \in nulls THEN Nil ELSE F(1),
       l |-> IF "l" \in nulls THEN Nil ELSE J(<<"a">>),
       s |-> IF "s" \in nulls THEN Nil ELSE SS(<<"x">>),
       mp |-> IF "mp" \in nulls THEN Nil ELSE M([x \in {"y"} |-> S("w")])]
      : nulls \in SUBSET {"n", "l", "s", "mp"} }

InitEval ==
    /\ es \in {[pc |-> "start", row |-> r] : r \in EvalRows}
    /\ qs = NoQs
    /\ othersOff
    /\ db = NoRow
    /\ pc = [p \in Clients |-> "idle"]
    /\ req = [p \in Clients |-> NoReq]
    /\ loc = [p \in Clients |-> NoLoc]
    /\ ghost = [p \in Clients |-> NoGhost]
    /\ resp = [p \in Clients |-> NoResp]
    /\ calls = 0
    /\ hist = [init |-> NoRow, sum |-> 0, aborts |-> 0]

\* es after the statements exists(c) and notExists(c) on the snapshot rowMap
evaluated(exists, notExists, c, rowMap) ==
    [pc |-> "evaluated", row |-> es.row, col |-> c, rowMap |-> rowMap,
     exists |-> evaluateStatementFromRowMap(Stmt(exists, c), c, rowMap),
     notExists |-> evaluateStatementFromRowMap(Stmt(notExists, c), c, rowMap)]

\* A condition that names the columns c and other: evaluateConditionalExpression
\* reads them in the row and evaluates the statements on what parseRow gave.
Evaluate ==
    /\ es.pc # "off"
    /\ \E c \in ColumnSet, other \in ColumnSet,
          exists \in {"attribute_exists", "if_exists"},
          notExists \in {"attribute_not_exists", "if_not_exists"} :
            es' = evaluated(exists, notExists, c, parseRow(ReadRow(es.row, {c, other})))
    /\ UNCHANGED <<db, pc, req, loc, ghost, resp, calls, hist, qs, others>>

NextEval == Evaluate

SpecEval == InitEval /\ [][NextEval]_vars

\* ------------------------------------------------------------------ deletes by key

\* DeleteItem requests whose key map has the partition key and whose key map
\* has not
KeyMaps == {KeyMap, EmptyMap, [x \in {"n"} |-> F(5)]}
KeyDeleteRequests ==
    { Request("Delete", m, c, NoExpr, EmptyMap, <<>>) :
        m \in KeyMaps, c \in {NoCondition, CondLess("n", 3)} }

StartKeyDelete(p) == \E r \in KeyDeleteRequests : Start(p, r)

NextKeys ==
    \E p \in Clients :
        \/ StartKeyDelete(p)
        \/ RunCallback(p)
        \/ Commit(p)
        \/ Abort(p)
        \/ Finish(p)

SpecKeys == Init /\ [][NextKeys]_vars

\* ------------------------------------------------------------------ UpdateItem

\* The actions of an update expression: DELETE and ADD of a set, ADD of a
\* number, and SET of a list element by its index
UpdateAction(action, col, val, idx) ==
    [action |-> action, col |-> col, val |-> val, idx |-> idx]
NoIdx == 0 - 1
UpdateActions ==
    { UpdateAction("DELETE", "s", SS(<<"x">>), NoIdx),
      UpdateAction("DELETE", "s", SS(<<"y", "q">>), NoIdx),
      UpdateAction("ADD", "s", SS(<<"z">>), NoIdx),
      UpdateAction("ADD", "s", SS(<<"x", "q">>), NoIdx),
      UpdateAction("ADD", "n", F(2), NoIdx),
      UpdateAction("ADD", "n", F(MaxFloat), NoIdx),
      UpdateAction("SET", "l", S("v"), 1),
      UpdateAction("SET", "l", S("v"), 3),
      UpdateAction("SET", "l", S("v"), 5) }

\* The elements of a set the caller has read, in their order; none when the
\* item read has no such attribute
oldElements(oldRes, col) ==
    IF col \in DOMAIN oldRes /\ IsStrings(oldRes[col]) THEN oldRes[col].SS ELSE <<>>
oldList(oldRes, col) ==
    IF col \in DOMAIN oldRes /\ IsList(oldRes[col]) THEN oldRes[col].L ELSE <<>>

\* DELETE of a set: the elements read that are not given
setDifference(old, given) ==
    SelectSeq(old, LAMBDA x : x \notin Range(given))
\* ADD of a set: the elements read, then the elements given that are new
setUnion(old, given) ==
    old \o SelectSeq(given, LAMBDA x : x \notin Range(old))
\* SET path[i] = v: element i replaced when the list has one, v appended when not
setListElement(list, i, v) ==
    IF i < Len(list) THEN [list EXCEPT ![i + 1] = v] ELSE Append(list, v)

\* parseActionValue: the map the action gives for the service call, made of
\* the primary key and the new value of the column, which for a set and for
\* a list element is worked out from oldRes, the item the caller has read.
actionValue(u, oldRes) ==
    CASE u.action = "DELETE" -> SS(setDifference(oldElements(oldRes, u.col), u.val.SS))
      [] u.action = "ADD" /\ IsStrings(u.val) ->
            SS(setUnion(oldElements(oldRes, u.col), u.val.SS))
      [] u.action = "ADD" /\ IsFloat(u.val) -> u.val
      [] u.action = "SET" -> L(setListElement(oldList(oldRes, u.col), u.idx, u.val.S))
parseActionValue(u, oldRes) == MapPut(KeyMap, u.col, actionValue(u, oldRes))

\* performOperation: the service call each action is handed to
operationOf(u) ==
    CASE u.action = "DELETE" -> "Del"
      [] u.action = "ADD" -> "Add"
      [] u.action = "SET" -> "Put"

\* The request of an update: the request of the service call and the action
\* it was made from
updateRequest(u, oldRes) ==
    [op |-> operationOf(u), m |-> parseActionValue(u, oldRes), eval |-> NoCondition,
     expr |-> EmptyExpr, AddValues |-> EmptyMap, colsToRemove |-> <<>>, action |-> u]

\* UpdateItem: the item is read, the action is made into a map from what was
\* read, and the service call starts.
StartUpdate(p) ==
    \E u \in UpdateActions : Start(p, updateRequest(u, SpannerGet(db).rs))

NextUpdate ==
    \E p \in Clients :
        \/ StartUpdate(p)
        \/ RunCallback(p)
        \/ Commit(p)
        \/ Abort(p)
        \/ Finish(p)

SpecUpdate == Init /\ [][NextUpdate]_vars

\* ------------------------------------------------------------------ TransactGetItems

\* How many items one TransactGetItems request has at most
MaxItems == 2
GetTables == {"T", "U"}
GetKeys == {"1", "2"}

\* A request item: a table and the primary key of the item asked for
GetItem(table, key) == [TableName |-> table, Key |-> key]
GetItems == {GetItem(t, k) : t \in GetTables, k \in GetKeys}
GetRequests == UNION {[1..n -> GetItems] : n \in 1..MaxItems}

\* The row of a key as a table holds it
getRow(k) == [c \in ColumnSet |-> IF c = PartitionKey THEN S(k) ELSE Nil]

InitGet ==
    /\ tg \in {[pc |-> "collect", rows |-> rows, items |-> items, next |-> 1,
                pValues |-> EmptyMap, allRows |-> <<>>, read |-> {}] :
                  rows \in SUBSET (GetTables \X GetKeys), items \in GetRequests}
    /\ sv = NoSv /\ fp = NoFp /\ gi = NoGi
    /\ qs = NoQs
    /\ es = NoEs
    /\ db = NoRow
    /\ pc = [p \in Clients |-> "idle"]
    /\ req = [p \in Clients |-> NoReq]
    /\ loc = [p \in Clients |-> NoLoc]
    /\ ghost = [p \in Clients |-> NoGhost]
    /\ resp = [p \in Clients |-> NoResp]
    /\ calls = 0
    /\ hist = [init |-> db, sum |-> 0, aborts |-> 0]

\* TransactGetProjectionCols for the next request item: its key goes to the
\* keys of its table. No projection is asked for.
TransactGetProjectionCols ==
    /\ tg.pc = "collect"
    /\ tg.next <= Len(tg.items)
    /\ LET item == tg.items[tg.next]
           keys == IF item.TableName \in DOMAIN tg.pValues
                   THEN tg.pValues[item.TableName] ELSE <<>>
       IN  tg' = [tg EXCEPT !.next = @ + 1,
                            !.pValues = MapPut(@, item.TableName, Append(keys, item.Key)),
                            !.pc = IF tg.next = Len(tg.items) THEN "read" ELSE "collect"]
    /\ UNCHANGED <<db, pc, req, loc, ghost, resp, calls, hist, qs, es, sv, fp, gi>>

\* txn.Read of a key set: the rows the table has for the keys, one for a key
\* however often it is given, in the order of the primary key
RECURSIVE keyOrder(_)
keyOrder(keys) ==
    IF keys = {} THEN <<>>
    ELSE LET k == CHOOSE x \in keys : \A y \in keys : x = "1" \/ y # "1"
         IN  <<k>> \o keyOrder(keys \ {k})
readKeySet(rows, table, pKeys) ==
    keyOrder({k \in Range(pKeys) : <<table, k>> \in rows})

\* The rows read of one table, each with the name of its table
rowsWithTable(table, keys) ==
    [i \in 1..Len(keys) |-> [Item |-> parseRow(getRow(keys[i])), TableName |-> table]]

\* SpannerTransactGetItems, one pass of its loop over the tables, which are
\* the keys of a Go map and come in any order
ReadTable ==
    /\ tg.pc = "read"
    /\ \E table \in (DOMAIN tg.pValues) \ tg.read :
          tg' = [tg EXCEPT !.read = @ \cup {table},
                           !.allRows = @ \o rowsWithTable(table,
                                            readKeySet(tg.rows, table, tg.pValues[table])),
                           !.pc = IF tg.read \cup {table} = DOMAIN tg.pValues
                                  THEN "done" ELSE "read"]
    /\ UNCHANGED <<db, pc, req, loc, ghost, resp, calls, hist, qs, es, sv, fp, gi>>

NextGet ==
    \/ TransactGetProjectionCols
    \/ ReadTable

SpecGet == InitGet /\ [][NextGet]_vars

\* ------------------------------------------------------------------ the service layer

\* The errors of the checks the service layer makes itself
UnknownTable == "GetTableConf"
ConditionError == "CreateConditionExpression"
InvalidListIndex == "invalid list index format"
BackendError == "backend"
ServiceErrors == {UnknownTable, ConditionError, ValidationException, InvalidListIndex}

\* A call of the service layer: the function, whether the table is known to
\* the configuration, whether the condition expression compiles, how many
\* items a batch has, whether the primary-key map and oldRes are nil, and
\* the target of a REMOVE (a column, path[i], or path[x] with no number).
ServiceCalls ==
    [fn : {"Put", "Add", "Del", "Delete", "BatchPut", "GetWithProjection", "Remove"},
     tableKnown : BOOLEAN, compiles : BOOLEAN, items : 0..1,
     keyMapNil : BOOLEAN, oldResNil : BOOLEAN,
     target : {"column", "element", "malformed"}]
\* The arguments each function has: the others are left at their defaults
serviceArgs(c) ==
    CASE c.fn \in {"Put", "Add"} -> c.items = 1 /\ ~c.keyMapNil /\ c.target = "column"
      [] c.fn \in {"Del", "Delete"} ->
            c.items = 1 /\ ~c.keyMapNil /\ ~c.oldResNil /\ c.target = "column"
      [] c.fn = "BatchPut" ->
            c.compiles /\ ~c.keyMapNil /\ ~c.oldResNil /\ c.target = "column"
      [] c.fn = "GetWithProjection" ->
            c.compiles /\ c.items = 1 /\ ~c.oldResNil /\ c.target = "column"
      [] c.fn = "Remove" -> c.items = 1 /\ ~c.keyMapNil

InitService ==
    /\ sv = [pc |-> "idle"]
    /\ tg = NoTg /\ fp = NoFp /\ gi = NoGi
    /\ qs = NoQs
    /\ es = NoEs
    /\ db = NoRow
    /\ pc = [p \in Clients |-> "idle"]
    /\ req = [p \in Clients |-> NoReq]
    /\ loc = [p \in Clients |-> NoLoc]
    /\ ghost = [p \in Clients |-> NoGhost]
    /\ resp = [p \in Clients |-> NoResp]
    /\ calls = 0
    /\ hist = [init |-> db, sum |-> 0, aborts |-> 0]

\* The checks a function makes before it calls the storage layer, in their
\* order: the error of the first that fails, NoErr when none does
tableConf(c) == IF c.tableKnown THEN NoErr ELSE UnknownTable
conditionExpression(c) == IF c.compiles THEN NoErr ELSE ConditionError
firstError(e1, e2) == IF e1 # NoErr THEN e1 ELSE e2
serviceChecks(c) ==
    CASE c.fn \in {"Put", "Add", "Del", "Delete"} ->
            firstError(tableConf(c), conditionExpression(c))
      [] c.fn = "BatchPut" ->
            firstError(IF c.items <= 0 THEN ValidationException ELSE NoErr, tableConf(c))
      [] c.fn = "GetWithProjection" ->
            firstError(IF c.keyMapNil THEN ValidationException ELSE NoErr, tableConf(c))
      [] c.fn = "Remove" -> firstError(tableConf(c), conditionExpression(c))

\* services.Remove after SpannerRemove has returned: the loop over the targets
removeTargets(c) ==
    IF c.oldResNil THEN NoErr
    ELSE IF c.target = "malformed" THEN InvalidListIndex
    ELSE NoErr

\* A function of the service layer is called.
ServiceCall ==
    /\ sv.pc = "idle"
    /\ \E c \in ServiceCalls :
          /\ serviceArgs(c)
          /\ sv' = [pc |-> "called", call |-> c, backend |-> 0, err |-> NoErr]
    /\ UNCHANGED <<db, pc, req, loc, ghost, resp, calls, hist, qs, es, tg, fp, gi>>

\* The function makes its checks and returns the error of the one that fails.
ServiceCheck ==
    /\ sv.pc = "called"
    /\ sv' = [sv EXCEPT !.err = serviceChecks(sv.call),
                        !.pc = IF serviceChecks(sv.call) = NoErr
                               THEN "checked" ELSE "returned"]
    /\ UNCHANGED <<db, pc, req, loc, ghost, resp, calls, hist, qs, es, tg, fp, gi>>

\* The function calls the storage layer, which goes through or fails;
\* services.Del reads the row again after a SpannerDel that went through.
StorageCall ==
    /\ sv.pc = "checked"
    /\ \E ok \in BOOLEAN :
          sv' = [sv EXCEPT !.backend = @ + (IF ok /\ sv.call.fn = "Del" THEN 2 ELSE 1),
                           !.err = IF ok THEN NoErr ELSE BackendError,
                           !.pc = IF ok /\ sv.call.fn = "Remove"
                                  THEN "stored" ELSE "returned"]
    /\ UNCHANGED <<db, pc, req, loc, ghost, resp, calls, hist, qs, es, tg, fp, gi>>

\* services.Remove makes the map it returns.
RemoveTargets ==
    /\ sv.pc = "stored"
    /\ sv' = [sv EXCEPT !.err = removeTargets(sv.call), !.pc = "returned"]
    /\ UNCHANGED <<db, pc, req, loc, ghost, resp, calls, hist, qs, es, tg, fp, gi>>

\* The caller takes what the function returned.
ServiceReturn ==
    /\ sv.pc = "returned"
    /\ sv' = [pc |-> "idle"]
    /\ UNCHANGED <<db, pc, req, loc, ghost, resp, calls, hist, qs, es, tg, fp, gi>>

NextService ==
    \/ ServiceCall
    \/ ServiceCheck
    \/ StorageCall
    \/ RemoveTargets
    \/ ServiceReturn

SpecService == InitService /\ [][NextService]_vars

\* ------------------------------------------------------------------ the query statement

\* An expression is the sequence of its tokens; a placeholder is a token
\* that starts with a colon. The expressions of the model have no JSON
\* path and no begins_with.
RangeExps ==
    { <<>>, <<"id", "=", ":a">>, <<"id", "=", ":a", "AND", "n", "<", ":b">>,
      <<"id", "=", ":v", "AND", "n", "<", ":v1">> }
FilterExps ==
    { <<>>, <<"n", ">", ":b">>, <<"n", ">", ":b", "AND", "s", "=", ":c">> }
Placeholders == {":a", ":b", ":c"}
RangeValMaps ==
    { [k \in ks |-> IF k = ":a" THEN S("1") ELSE F(v)] :
        ks \in {{":a", ":b"}, Placeholders}, v \in 1..2 }
    \cup { [k \in {":v", ":v1"} |-> IF k = ":v" THEN S("1") ELSE F(2)] }

\* queryVar + strconv.Itoa(count), with the @ of the parameter
paramNames ==
    [rangeExp |-> <<"rangeExp1", "rangeExp2", "rangeExp3">>,
     filterExp |-> <<"filterExp1", "filterExp2", "filterExp3">>]
atNames ==
    [rangeExp |-> <<"@rangeExp1", "@rangeExp2", "@rangeExp3">>,
     filterExp |-> <<"@filterExp1", "@filterExp2", "@filterExp3">>]

\* strings.Contains(token, k) for a placeholder k: the token is k, or k is
\* the beginning of it (":v" of ":v1")
containsPlaceholder(token, k) == token = k \/ (k = ":v" /\ token = ":v1")
\* strings.ReplaceAll(token, k, new): what follows k in the token stays
replacedIn(token, k, new) ==
    IF token = k THEN new
    ELSE IF k = ":v" /\ token = ":v1" THEN new \o "1"
    ELSE token
\* strings.ReplaceAll(expression, k, "@" + str)
replaceAll(expression, k, new) ==
    [i \in 1..Len(expression) |-> replacedIn(expression[i], k, new)]

\* createWhereClause: the loop over RangeValueMap, whose keys are visited in
\* the order `order`; st holds the expression, the parameters and the count
RECURSIVE placeholdersLoop(_, _, _, _)
placeholdersLoop(st, queryVar, RangeValueMap, order) ==
    IF order = <<>> THEN st
    ELSE LET k == Head(order)
         IN  IF \E i \in 1..Len(st.expression) : containsPlaceholder(st.expression[i], k)
             THEN placeholdersLoop(
                      [expression |-> replaceAll(st.expression, k, atNames[queryVar][st.count]),
                       params |-> MapPut(st.params, paramNames[queryVar][st.count],
                                         RangeValueMap[k]),
                       count |-> st.count + 1],
                      queryVar, RangeValueMap, Tail(order))
             ELSE placeholdersLoop(st, queryVar, RangeValueMap, Tail(order))

\* createWhereClause: the clause with the expression added, and the parameters
whereAdded(whereClause, st) ==
    [whereClause |-> (IF whereClause # <<"WHERE">> /\ whereClause[Len(whereClause)] # "AND"
                      THEN Append(whereClause, "AND") ELSE whereClause) \o st.expression,
     params |-> st.params]
createWhereClause(whereClause, expression, queryVar, RangeValueMap, params, order) ==
    whereAdded(whereClause,
               placeholdersLoop([expression |-> expression, params |-> params, count |-> 1],
                                queryVar, RangeValueMap, order))

\* parseSpannerCondition: the WHERE clause and the parameters of the
\* statement. order1 and order2 are the orders the two loops visit the keys in.
conditionFiltered(ranged, FilterExp, RangeValMap, order2) ==
    IF FilterExp # <<>>
    THEN createWhereClause(ranged.whereClause, FilterExp, "filterExp", RangeValMap,
                           ranged.params, order2)
    ELSE ranged
conditionRanged(start, RangeExp, FilterExp, RangeValMap, order1, order2) ==
    conditionFiltered(IF RangeExp # <<>>
                      THEN createWhereClause(start, RangeExp, "rangeExp", RangeValMap,
                                             EmptyMap, order1)
                      ELSE [whereClause |-> start, params |-> EmptyMap],
                      FilterExp, RangeValMap, order2)
conditionClause(res) ==
    [whereClause |-> IF res.whereClause = <<"WHERE">> THEN <<>> ELSE res.whereClause,
     params |-> res.params]
parseSpannerCondition(RangeExp, FilterExp, RangeValMap, sKey, order1, order2) ==
    conditionClause(conditionRanged(IF sKey # "" THEN <<"WHERE", sKey, "is not null">>
                                    ELSE <<"WHERE">>,
                                    RangeExp, FilterExp, RangeValMap, order1, order2))

\* fnv.New64a over the text of the statement: equal texts give equal sums,
\* and the sums of the different texts of the model are different
Sum64(finalQuery) == [fnv64a |-> finalQuery]

\* createSpannerQuery with the condition: the statement, its parameters and
\* the hash of its text
statementOf(created, where) ==
    [SQL |-> [select |-> created.stmt.select, from |-> created.stmt.from,
              where |-> where.whereClause, orderBy |-> created.stmt.orderBy,
              limit |-> created.stmt.limit, offset |-> created.stmt.offset],
     Params |-> where.params]
hashed(stmt) == [stmt |-> stmt, hash |-> Sum64(stmt.SQL)]
createSpannerQueryHashed(query, RangeExp, FilterExp, RangeValMap, order1, order2) ==
    hashed(statementOf(createSpannerQuery(query, queryKeys(query).tPKey,
                                          queryKeys(query).pKey, queryKeys(query).sKey),
                       parseSpannerCondition(RangeExp, FilterExp, RangeValMap,
                                             queryKeys(query).sKey, order1, order2)))

\* The Query request the statements are made for
FingerprintQuery == Query(MaxLimit, NoStart, <<>>, EmptyMap, "", FALSE, TRUE)

InitFingerprint ==
    /\ fp \in {[pc |-> "first", RangeExp |-> r, FilterExp |-> f, RangeValMap |-> m,
                first |-> Nil, second |-> Nil] :
                  r \in RangeExps, f \in FilterExps, m \in RangeValMaps}
    /\ tg = NoTg /\ sv = NoSv /\ gi = NoGi
    /\ qs = NoQs
    /\ es = NoEs
    /\ db = NoRow
    /\ pc = [p \in Clients |-> "idle"]
    /\ req = [p \in Clients |-> NoReq]
    /\ loc = [p \in Clients |-> NoLoc]
    /\ ghost = [p \in Clients |-> NoGhost]
    /\ resp = [p \in Clients |-> NoResp]
    /\ calls = 0
    /\ hist = [init |-> db, sum |-> 0, aborts |-> 0]

\* createSpannerQuery for the request
created(order1, order2) ==
    createSpannerQueryHashed(FingerprintQuery, fp.RangeExp, fp.FilterExp, fp.RangeValMap,
                             order1, order2)
CreateFirst ==
    /\ fp.pc = "first"
    /\ \E order1 \in Orders(DOMAIN fp.RangeValMap) :
       \E order2 \in Orders(DOMAIN fp.RangeValMap) :
          fp' = [fp EXCEPT !.pc = "second", !.first = created(order1, order2)]
    /\ UNCHANGED <<db, pc, req, loc, ghost, resp, calls, hist, qs, es, tg, sv, gi>>
\* createSpannerQuery for the same request once more
CreateSecond ==
    /\ fp.pc = "second"
    /\ \E order1 \in Orders(DOMAIN fp.RangeValMap) :
       \E order2 \in Orders(DOMAIN fp.RangeValMap) :
          fp' = [fp EXCEPT !.pc = "done", !.second = created(order1, order2)]
    /\ UNCHANGED <<db, pc, req, loc, ghost, resp, calls, hist, qs, es, tg, sv, gi>>

NextFingerprint ==
    \/ CreateFirst
    \/ CreateSecond

SpecFingerprint == InitFingerprint /\ [][NextFingerprint]_vars

\* ------------------------------------------------------------------ the service instance

\* How many calls of GetServiceInstance and of SetServiceInstance are made
MaxGets == 3
MaxSets == 1

\* The package variable `service` before anything is assigned to it, the
\* instance the n-th run of the initialisation makes, and an instance that
\* SetServiceInstance is given
NilService == [kind |-> "nil", n |-> 0]
spannerService(n) == [kind |-> "spannerService", n |-> n]
injected(n) == [kind |-> "injected", n |-> n]

NoReturn == [instance |-> NilService, from |-> 0 - 1, to |-> 0 - 1]

InitInstance ==
    /\ gi = [once |-> "new", service |-> NilService, inits |-> 0, gets |-> 0, sets |-> 0,
             pc |-> [g \in Clients |-> "idle"], from |-> [g \in Clients |-> 0],
             ret |-> [g \in Clients |-> NoReturn]]
    /\ tg = NoTg /\ sv = NoSv /\ fp = NoFp
    /\ qs = NoQs
    /\ es = NoEs
    /\ db = NoRow
    /\ pc = [p \in Clients |-> "idle"]
    /\ req = [p \in Clients |-> NoReq]
    /\ loc = [p \in Clients |-> NoLoc]
    /\ ghost = [p \in Clients |-> NoGhost]
    /\ resp = [p \in Clients |-> NoResp]
    /\ calls = 0
    /\ hist = [init |-> db, sum |-> 0, aborts |-> 0]

\* sync.Once whose Do runs the function on every call
onceNever(once) == FALSE
\* sync.Once: whether Do returns without running the function
onceDone(once) == once = "done"

\* A goroutine calls GetServiceInstance.
GetServiceInstance(g) ==
    /\ gi.pc[g] = "idle"
    /\ gi.gets < MaxGets
    /\ gi' = [gi EXCEPT !.pc[g] = "do", !.gets = @ + 1, !.from[g] = gi.sets]
    /\ UNCHANGED <<db, pc, req, loc, ghost, resp, calls, hist, qs, es, tg, sv, fp>>

\* once.Do: the goroutine returns from it when the function has run, runs
\* the function when no goroutine has, and waits while another runs it.
OnceDo(g) ==
    /\ gi.pc[g] = "do"
    /\ IF onceDone(gi.once)
       THEN gi' = [gi EXCEPT !.pc[g] = "return"]
       ELSE /\ gi.once # "running"
            /\ gi' = [gi EXCEPT !.pc[g] = "init", !.once = "running"]
    /\ UNCHANGED <<db, pc, req, loc, ghost, resp, calls, hist, qs, es, tg, sv, fp>>

\* The function of once.Do: the client of the storage instance is taken and
\* a new service is assigned, or GetSpannerClient fails and the function
\* panics. Either way the Once is done.
OnceBody(g) ==
    /\ gi.pc[g] = "init"
    /\ \E ok \in BOOLEAN :
          IF ok
          THEN gi' = [gi EXCEPT !.service = spannerService(gi.inits + 1),
                                !.inits = @ + 1, !.once = "done", !.pc[g] = "return"]
          ELSE gi' = [gi EXCEPT !.inits = @ + 1, !.once = "done", !.pc[g] = "panic"]
    /\ UNCHANGED <<db, pc, req, loc, ghost, resp, calls, hist, qs, es, tg, sv, fp>>

\* return service
ReturnService(g) ==
    /\ gi.pc[g] = "return"
    /\ gi' = [gi EXCEPT !.pc[g] = "idle",
                        !.ret[g] = [instance |-> gi.service, from |-> gi.from[g],
                                    to |-> gi.sets]]
    /\ UNCHANGED <<db, pc, req, loc, ghost, resp, calls, hist, qs, es, tg, sv, fp>>

\* SetServiceInstance: an assignment with no guard
SetServiceInstance ==
    /\ gi.sets < MaxSets
    /\ gi' = [gi EXCEPT !.service = injected(gi.sets + 1), !.sets = @ + 1]
    /\ UNCHANGED <<db, pc, req, loc, ghost, resp, calls, hist, qs, es, tg, sv, fp>>

NextInstance ==
    \/ \E g \in Clients :
          \/ GetServiceInstance(g)
          \/ OnceDo(g)
          \/ OnceBody(g)
          \/ ReturnService(g)
    \/ SetServiceInstance

SpecInstance == InitInstance /\ [][NextInstance]_vars

\* ------------------------------------------------------------------ properties

\* C1: a conditional write (SpannerPut, SpannerDelete, SpannerAdd, SpannerDel,
\* SpannerRemove) whose condition evaluates to false on the row read in the
\* transaction buffers no mutation, ends with
\* ConditionalCheckFailedException and writes nothing to the backend.
ConditionFalseNoMutation ==
    \A p \in Clients :
        ghost[p].cond = "false" =>
            /\ pc[p] = "done"
            /\ loc[p].mut = NoMut
            /\ loc[p].err = ConditionalCheckFailedException
            /\ ~ghost[p].wrote

\* C1: a call has ended on a false condition, while the row exists.
ConditionFalseReached ==
    \E p \in Clients :
        /\ ghost[p].cond = "false"
        /\ pc[p] = "done"
        /\ db # NoRow

\* The mutation a run of the callback of client p would buffer now, were
\* oldRes and spannerRow as given
runMutation(p, oldRes, spannerRow, lastK, order) ==
    callback(req[p], db, loc[p].m, loc[p].AddValues, oldRes, spannerRow,
             loc[p].update, lastK, order).mut

\* C2: the mutation a conditional write buffers is determined by the row as
\* the transaction reads it, the update expression and the value map alone:
\* with oldRes and spannerRow as the caller read them before the transaction
\* the callback buffers the mutation it buffers with them read in the
\* transaction.
MutationFromTransactionOnly ==
    \A p \in Clients :
        pc[p] = "ready" =>
            \A lastK \in lastKeys(loc[p].AddValues) :
            \A order \in Orders(IF req[p].op = "Del"
                                THEN delListRemaining(db, loc[p].m) ELSE {}) :
                runMutation(p, loc[p].oldRes, loc[p].spannerRow, lastK, order)
                  = runMutation(p, SpannerGet(db).rs, SpannerGet(db).spannerRow,
                                lastK, order)

\* The number column n of a row holds; a NULL counts as 0
numberOf(row) == IF row = NoRow \/ row["n"] = Nil THEN 0 ELSE row["n"].F

\* C3: with concurrent ADDs on the numeric attribute n of one row, the value
\* stored is the initial value plus the sum of the increments of the ADDs
\* that committed.
AddIsSumOfCommitted ==
    db # NoRow => numberOf(db) = numberOf(hist.init) + hist.sum

\* C3: an ADD has committed on its second run, after the ADD of the other
\* client committed in between and the backend aborted it for the conflict.
AddRetriedAfterConflict ==
    \E p \in Clients :
        /\ ghost[p].wrote
        /\ ghost[p].runs = 2
        /\ hist.aborts = 0
        /\ hist.sum > increment(p)

\* Whether a REMOVE has a target path[i], and the index of it
hasListTarget(colsToRemove) ==
    \E i \in 1..Len(colsToRemove) : IsListTarget(colsToRemove[i])
listIndex(colsToRemove) ==
    colsToRemove[CHOOSE i \in 1..Len(colsToRemove) : IsListTarget(colsToRemove[i])].idx
\* A list without its element of (0-based) index i, if it has one
without(list, i) ==
    IF i >= Len(list) THEN list
    ELSE SubSeq(list, 1, i) \o SubSeq(list, i + 2, Len(list))

\* The client has made the same REMOVE twice, both calls went through
removedTwice(p) ==
    /\ pc[p] = "idle"
    /\ resp[p].prev.req # NoReq
    /\ resp[p].err = NoErr
    /\ resp[p].prev.err = NoErr

BatchConditionFalseAborts ==
    \A p \in Clients :
        (req[p].op = "Batch" /\ ghost[p].cond = "false") =>
            /\ pc[p] = "done"
            /\ loc[p].mut = NoMut
            /\ loc[p].err = ConditionalCheckFailedException
            /\ ~ghost[p].wrote

\* C4: the second sub-request of a batch has failed its condition after the
\* first was built.
BatchFailedAfterFirstBuilt ==
    \E p \in Clients :
        /\ req[p].op = "Batch"
        /\ Len(req[p].items) = 2
        /\ Len(loc[p].muts) = 1
        /\ ghost[p].cond = "false"
        /\ pc[p] = "done"

\* A call of QueryAttributes for rows (no count) is over
queried == qs.pc \in {"returned", "panicked", "failed"} /\ ~qs.query.OnlyCount
pageOf == qs.finalResp.Items
keyOf == qs.finalResp.LastEvaluatedKey

\* C5 as stated: for a query with Limit >= 1 and any start offset, a response
\* of N items has a null LastEvaluatedKey when N < Limit, and when N = Limit
\* a LastEvaluatedKey whose offset is the start offset plus Limit.
QueryLimitContract ==
    (queried /\ qs.pc = "returned" /\ qs.query.Limit >= 1) =>
        /\ Len(pageOf) < qs.query.Limit => keyOf = Nil
        /\ Len(pageOf) = qs.query.Limit =>
              /\ keyOf # Nil
              /\ keyOf["offset"] = GoInt(parseOffset(qs.query) + qs.query.Limit)

\* C5 amended: for a query with Limit >= 1 and any start offset, a response
\* holds at most Limit items; its LastEvaluatedKey is null when N < Limit;
\* when N = Limit it is non-null exactly when more rows match beyond the
\* page, and null when the page holds the last matching rows; a non-null
\* LastEvaluatedKey has the start offset plus Limit for its offset.
QueryLimitPaging ==
    (queried /\ qs.pc = "returned" /\ qs.query.Limit >= 1) =>
        /\ Len(pageOf) <= qs.query.Limit
        /\ Len(pageOf) < qs.query.Limit => keyOf = Nil
        /\ Len(pageOf) = qs.query.Limit =>
              (keyOf # Nil <=> qs.total > parseOffset(qs.query) + qs.query.Limit)
        /\ keyOf # Nil =>
              /\ Len(pageOf) = qs.query.Limit
              /\ keyOf["offset"] = GoInt(parseOffset(qs.query) + qs.query.Limit)

\* C5: the page asked for after a first one holds exactly Limit items, the
\* last that match, and its LastEvaluatedKey is null.
LastPageFull ==
    /\ queried
    /\ qs.pc = "returned"
    /\ qs.calls = 2
    /\ qs.query.Limit >= 1
    /\ qs.query.StartFrom # NoStart
    /\ qs.query.StartFrom.offset = qs.query.Limit
    /\ Len(pageOf) = qs.query.Limit
    /\ keyOf = Nil

\* C6: QueryAttributes returns a non-null LastEvaluatedKey exactly when the
\* backend returned more than Limit rows; then the row beyond Limit is not
\* among Items, the key's offset is the start offset plus Limit and its key
\* fields are those of the last item returned.
SentinelDecidesLastEvaluatedKey ==
    (queried /\ qs.pc # "failed") =>
        /\ qs.pc = "returned"
        /\ keyOf # Nil <=> Len(qs.rows) > qs.query.Limit
        /\ Len(qs.rows) > qs.query.Limit =>
              /\ pageOf = SubSeq(qs.rows, 1, qs.query.Limit)
              /\ keyOf["offset"] = GoInt(parseOffset(qs.query) + qs.query.Limit)
              /\ keyOf[qs.keys.pKey] = MapGet(pageOf[Len(pageOf)], qs.keys.pKey)
              /\ keyOf[qs.keys.tPKey] = MapGet(pageOf[Len(pageOf)], qs.keys.tPKey)
              /\ qs.keys.sKey # "" =>
                    keyOf[qs.keys.sKey] = MapGet(pageOf[Len(pageOf)], qs.keys.sKey)

\* C7: the statement of a Query whose caller wrote Limit 0 has the default
\* LIMIT of 5000, and that of a Query with any other Limit L has LIMIT L + 1.
DefaultLimitApplies ==
    (queried /\ qs.op = "Query") =>
        qs.stmt.limit = IF qs.limit = 0 THEN DefaultLimit ELSE qs.limit + 1

\* C8: for a non-empty projection P in a query for rows, the columns that
\* parseSpannerColumns selects are those of P, after the substitution of the
\* names, that the table has, with the partition key and the sort key in
\* use and, for a query on an index, the partition key of the table; a name
\* of P that is no column of the table is not selected.
ProjectionColumns ==
    (queried /\ qs.query.ProjectionExpression # <<>>) =>
        /\ Range(qs.cols) =
              (Range(substituted(qs.query.ProjectionExpression,
                                 qs.query.ExpressionAttributeNames)) \cap ColumnSet)
              \cup {qs.keys.pKey}
              \cup (IF qs.keys.sKey # "" THEN {qs.keys.sKey} ELSE {})
              \cup (IF qs.query.IndexName # "" THEN {qs.keys.tPKey} ELSE {})
        /\ Range(qs.stmt.select) = Range(qs.cols)
        /\ Range(qs.cols) \subseteq ColumnSet

\* C8: a query on an index has projected a placeholder and a name the table
\* has not, and selected the column of the placeholder and the keys.
ProjectedOnIndex ==
    /\ queried
    /\ qs.pc = "returned"
    /\ qs.query.ProjectionExpression = <<"#a", "zz">>
    /\ qs.query.IndexName = IndexName
    /\ qs.cols = <<"l", "n", "id">>

\* C9: on every row snapshot and for every column c, attribute_exists(c) is
\* true iff the row has a non-null value for c, and attribute_not_exists(c)
\* is the complement: a column stored as NULL does not exist.
AttributeExistsIffNonNull ==
    es.pc = "evaluated" =>
        /\ es.exists = GoBool(es.row # NoRow /\ es.row[es.col] # Nil)
        /\ es.notExists = GoBool(~(es.row # NoRow /\ es.row[es.col] # Nil))

\* C11: after a REMOVE that went through on a row that exists, the row has
\* no value for a plain column removed, and its list is the list as it was
\* without element i for a target path[i].
RemoveDropsTarget ==
    (/\ pc["c1"] = "idle"
     /\ resp["c1"].req # NoReq
     /\ resp["c1"].prev.req = NoReq
     /\ resp["c1"].err = NoErr
     /\ resp["c1"].runs = 1
     /\ resp["c1"].preRow # NoRow) =>
        \A i \in 1..Len(resp["c1"].req.colsToRemove) :
            LET target == resp["c1"].req.colsToRemove[i]
            IN  IF IsListTarget(target)
                THEN resp["c1"].preRow[target.col] # Nil =>
                        resp["c1"].row[target.col]
                          = J(without(resp["c1"].preRow[target.col].J, target.idx))
                ELSE resp["c1"].row[target.col] = Nil

\* The elements of a set cell of a row
setOf(cell) == IF cell = Nil THEN {} ELSE Range(cell.SS)

\* C12: a DELETE that commits leaves in the set column exactly the elements
\* of the stored set that are not among the elements given.
DeleteWritesDifference ==
    [][\A p \in Clients :
          (/\ pc[p] = "buffered"
           /\ pc'[p] = "done"
           /\ req[p].op = "Del"
           /\ ghost'[p].wrote) =>
              setOf(db'[req[p].action.col])
                = setOf(db[req[p].action.col]) \ Range(req[p].action.val.SS)]_vars

\* The number of a numeric cell of a row, 0 for a cell with no value
numberOr0(cell) == IF cell = Nil THEN 0 ELSE cell.F

\* C13: an ADD that commits leaves in a numeric column the stored number plus
\* the number given (the number given when the column has no value), and in
\* a set column the union of the stored set and the elements given.
AddWritesSumOrUnion ==
    [][\A p \in Clients :
          (/\ pc[p] = "buffered"
           /\ pc'[p] = "done"
           /\ req[p].op = "Add"
           /\ ghost'[p].wrote) =>
              IF IsFloat(req[p].action.val)
              THEN db'[req[p].action.col]
                     = F(FAdd(numberOr0(db[req[p].action.col]), req[p].action.val.F))
              ELSE setOf(db'[req[p].action.col])
                     = setOf(db[req[p].action.col]) \cup Range(req[p].action.val.SS)]_vars

\* C14: no ADD of a number has a mutation buffered when the sum of the
\* number the transaction read and the number given is an infinity: the
\* callback has failed on the sum.
InfiniteSumRejected ==
    \A p \in Clients :
        (/\ pc[p] = "buffered"
         /\ req[p].op = "Add"
         /\ IsFloat(req[p].action.val)
         /\ ghost[p].txnRow # NoRow
         /\ loc[p].mut # NoMut) =>
            ~IsInf(FAdd(numberOr0(ghost[p].txnRow[req[p].action.col]),
                        req[p].action.val.F))

\* C15: TransactGetItems gives one response for each request item, in the
\* order of the request, with the table of the item and the item of its key.
OneResponsePerItem ==
    tg.pc = "done" =>
        /\ Len(tg.allRows) = Len(tg.items)
        /\ \A i \in 1..Len(tg.items) :
              /\ tg.allRows[i].TableName = tg.items[i].TableName
              /\ <<tg.items[i].TableName, tg.items[i].Key>> \in tg.rows =>
                    tg.allRows[i].Item = parseRow(getRow(tg.items[i].Key))

\* C16: a delete whose key map has no partition key has returned
\* ValidationException.
MissingKeyIsValidationException ==
    \A p \in Clients :
        (/\ resp[p].req # NoReq
         /\ resp[p].req.op = "Delete"
         /\ PartitionKey \notin DOMAIN resp[p].req.m) =>
            resp[p].err = ValidationException

\* C17: a call of the service layer that has returned the error of one of
\* its own checks has made no call of the storage layer.
ValidationBeforeBackend ==
    (sv.pc = "returned" /\ sv.err \in ServiceErrors) => sv.backend = 0

\* C18: the two statements made for one Query request have the same text,
\* the same parameters and the same hash.
FingerprintStable ==
    fp.pc = "done" =>
        /\ fp.first.stmt.SQL = fp.second.stmt.SQL
        /\ fp.first.stmt.Params = fp.second.stmt.Params
        /\ fp.first.hash = fp.second.hash

\* The calls of g and h have both returned with no SetServiceInstance from
\* the start of either to the return of either
sameEpoch(g, h) ==
    /\ gi.ret[g].from >= 0
    /\ gi.ret[g].from = gi.ret[g].to
    /\ gi.ret[h].from = gi.ret[h].to
    /\ gi.ret[g].from = gi.ret[h].from

\* C19: the initialisation has run at most once, and two calls of
\* GetServiceInstance with no SetServiceInstance between them have returned
\* the same instance.
InitOnceSameInstance ==
    /\ gi.inits <= 1
    /\ \A g, h \in Clients :
          sameEpoch(g, h) => gi.ret[g].instance = gi.ret[h].instance
\* Two goroutines have returned the instance the one run of the
\* initialisation made, the second after it had waited in once.Do or found
\* the Once done
BothReturnedInstance ==
    /\ sameEpoch("c1", "c2")
    /\ gi.ret["c1"].instance = spannerService(1)
    /\ gi.ret["c2"].instance = spannerService(1)

\* The list of a row, empty for no row and for a row with no list
listOf(row) == IF row = NoRow THEN <<>> ELSE IF row["l"] = Nil THEN <<>> ELSE row["l"].J
\* A list with element i (from 0) replaced by v, or with v at its end when
\* it has no element i
replacedOrAppended(list, i, v) ==
    IF i < Len(list) THEN [k \in 1..Len(list) |-> IF k = i + 1 THEN v ELSE list[k]]
    ELSE list \o <<v>>

\* C20: the row composed for SET path[i] = v has the key of the item and the
\* list read with element i replaced (i < n) or with v appended (i >= n),
\* and a SET that commits on the row as it was read leaves that list and the
\* key in the row.
SetListElementComposed ==
    [][\A p \in Clients :
          (/\ pc[p] = "buffered"
           /\ pc'[p] = "done"
           /\ req[p].op = "Put"
           /\ ghost'[p].wrote
           /\ ghost[p].preRow = db) =>
              /\ req[p].m = MapPut(KeyMap, "l",
                                   L(replacedOrAppended(listOf(db), req[p].action.idx,
                                                        req[p].action.val.S)))
              /\ db'["l"] = J(replacedOrAppended(listOf(db), req[p].action.idx,
                                                 req[p].action.val.S))
              /\ db'[PartitionKey] = S(TheKey)]_vars
\* A SET of element 1 of a list of three has committed
SetListElementReplaced ==
    \E p \in Clients :
        /\ pc[p] = "done"
        /\ req[p].op = "Put"
        /\ req[p].action.idx = 1
        /\ ghost[p].wrote
        /\ ghost[p].preRow # NoRow
        /\ ghost[p].preRow["l"] = J(<<"a", "b", "c">>)
        /\ db["l"] = J(<<"a", "v", "c">>)
\* A SET of element 5 of a list of three has committed
SetListElementAppended ==
    \E p \in Clients :
        /\ pc[p] = "done"
        /\ req[p].op = "Put"
        /\ req[p].action.idx = 5
        /\ ghost[p].wrote
        /\ db["l"] = J(<<"a", "b", "c", "v">>)

\* C21: a call whose callback has returned ConditionalCheckFailedException
\* has written nothing, does nothing more than return, and its callback does
\* not run again; a callback that is to run again has buffered a mutation
\* on its last run, which the backend aborted.
ConditionFailureNotRetried ==
    [][\A p \in Clients :
          /\ (pc[p] = "done" /\ loc[p].err = ConditionalCheckFailedException) =>
                /\ ~ghost[p].wrote
                /\ pc'[p] \in {"done", "idle"}
                /\ pc'[p] = "done" => ghost'[p].runs = ghost[p].runs /\ ~ghost'[p].wrote
          /\ (pc'[p] = "ready" /\ ghost'[p].runs >= 1) =>
                /\ pc[p] \in {"buffered", "ready"}
                /\ loc'[p].err = NoErr
                /\ loc'[p].mut # NoMut]_vars
\* A call has ended on a false condition on the second run of its callback,
\* after the backend aborted the first
ConditionFailedAfterAbort ==
    \E p \in Clients :
        /\ pc[p] = "done"
        /\ loc[p].err = ConditionalCheckFailedException
        /\ ghost[p].runs = 2

\* C22: a call that has ended on ConditionalCheckFailedException has had its
\* condition evaluated, without an error, to false.
ConditionalCheckFailedOnlyWhenFalse ==
    \A p \in Clients :
        (pc[p] = "done" /\ loc[p].err = ConditionalCheckFailedException) =>
            ghost[p].cond = "false"

\* The name of the parameter a token of the WHERE clause references, "" for
\* a token that references none the statement can bind
parameterOf(token) ==
    IF \E q \in DOMAIN atNames : \E c \in 1..3 : atNames[q][c] = token
    THEN LET q == CHOOSE x \in DOMAIN atNames : \E c \in 1..3 : atNames[x][c] = token
             c == CHOOSE y \in 1..3 : atNames[q][y] = token
         IN  paramNames[q][c]
    ELSE ""
\* The token of the WHERE clause at the place of token i of the expression
\* that comes after `before` tokens has a parameter bound to the value of
\* the placeholder
boundAs(stmt, before, expression, RangeValMap) ==
    \A i \in 1..Len(expression) :
        expression[i] \in DOMAIN RangeValMap =>
            /\ parameterOf(stmt.SQL.where[before + i]) \in DOMAIN stmt.Params
            /\ stmt.Params[parameterOf(stmt.SQL.where[before + i])]
                 = RangeValMap[expression[i]]

\* C23: in the statement made for a query whose placeholders all have a
\* value, every placeholder of the key condition and of the filter is
\* replaced by a parameter bound to the value of the placeholder.
PlaceholdersBound ==
    (fp.pc # "first") =>
        /\ boundAs(fp.first.stmt, 1, fp.RangeExp, fp.RangeValMap)
        /\ boundAs(fp.first.stmt,
                   1 + Len(fp.RangeExp) + (IF fp.RangeExp = <<>> THEN 0 ELSE 1),
                   fp.FilterExp, fp.RangeValMap)

\* The mutations a first run of the callback of client p can buffer on the
\* row as stored now: m and expr.AddValues as the request brought them,
\* oldRes as the caller read it, nothing merged yet
firstRunMutations(p) ==
    { callback(req[p], db, req[p].m, req[p].AddValues,
               SpannerGet(ghost[p].preRow).rs, loc[p].spannerRow, EmptyMap,
               lastK, order).mut :
        lastK \in lastKeys(req[p].AddValues),
        order \in Orders(IF req[p].op = "Del"
                         THEN delListRemaining(db, req[p].m) ELSE {}) }
\* The mutations the next run of the callback of client p can buffer, with
\* the maps as the earlier runs left them
nextRunMutations(p) ==
    { callback(req[p], db, loc[p].m, loc[p].AddValues, loc[p].oldRes,
               loc[p].spannerRow, loc[p].update, lastK, order).mut :
        lastK \in lastKeys(loc[p].AddValues),
        order \in Orders(IF req[p].op = "Del"
                         THEN delListRemaining(db, loc[p].m) ELSE {}) }

\* C24: a callback that runs again after an abort buffers a mutation a first
\* run on the row as stored would buffer: what the earlier runs changed
\* in expr.AddValues, oldRes and the value map does not show in it.
RetryBuffersFirstRunMutation ==
    \A p \in Clients :
        (pc[p] = "ready" /\ ghost[p].runs >= 1) =>
            nextRunMutations(p) \subseteq firstRunMutations(p)

\* The table columns a condition and an update expression name
columnsNamed(r) ==
    (Range(r.eval.Cols)
       \cup (IF r.expr = NoExpr THEN {} ELSE Range(r.expr.Field) \cup DOMAIN r.AddValues))
    \cap ColumnSet

\* C25: the row evaluateConditionalExpression reads holds every table column
\* that e.Cols, expr.Field and the keys of expr.AddValues name.
SnapshotHoldsNamedColumns ==
    \A p \in Clients :
        (pc[p] \in {"buffered", "done"} /\ loc[p].read /\ ghost[p].runs = 1) =>
            columnsNamed(req[p]) \subseteq loc[p].cols

\* C26: QueryAttributes never reads an element the answer of the backend
\* has not, whatever the Limit, the start offset and the answer.
QueryIndexesInsideResult ==
    qs.pc # "panicked"

\* C27: the response to a query for rows with Limit >= 1 has Count equal to
\* the number of its Items, at most Limit Items, and for Items the first
\* rows of the answer of the backend, in its order.
ItemsArePrefixOfRows ==
    (queried /\ qs.pc = "returned" /\ qs.query.Limit >= 1) =>
        /\ qs.finalResp.Count = Len(pageOf)
        /\ Len(pageOf) <= qs.query.Limit
        /\ pageOf = SubSeq(qs.rows, 1, Len(pageOf))

\* C27: the backend has answered with Limit + 1 rows, two or more, and the
\* response holds the first Limit of them.
PageWithoutSentinel ==
    /\ queried
    /\ qs.pc = "returned"
    /\ qs.query.Limit >= 2
    /\ Len(qs.rows) = qs.query.Limit + 1
    /\ Len(pageOf) = qs.query.Limit
    /\ qs.finalResp.Count = qs.query.Limit

\* The keys of the matching rows in the order of the sort key, and the keys
\* of the items the pages have returned so far
sortedIds(total, asc) ==
    [j \in 1..total |-> S(RowIds[IF asc THEN j ELSE total + 1 - j])]
seenIds == [j \in 1..Len(qs.seen) |-> qs.seen[j]["id"]]
pagesEnded == qs.pc = "returned" /\ qs.finalResp.LastEvaluatedKey = Nil

\* C28: over a table that does not change, a Query with Limit >= 1 on a sort
\* key, repeated with the LastEvaluatedKey of each response, returns the
\* matching rows in the order of the sort key, each once: what the pages
\* have returned is always the beginning of the sorted rows, the paging ends
\* with a null LastEvaluatedKey, and then every row has been returned.
PagingReturnsEveryRowOnce ==
    /\ [](qs.pc \in {"idle", "returned"})
    /\ [](qs.pc = "returned" =>
            seenIds = SubSeq(sortedIds(qs.total, qs.query.SortAscending), 1, Len(qs.seen)))
    /\ [](pagesEnded => Len(qs.seen) = qs.total)
    /\ (qs.pc = "returned" ~> pagesEnded)

\* C28: the third page of a query with Limit 1 has ended the paging over
\* three rows.
ThreePagesEnded ==
    /\ pagesEnded
    /\ qs.calls = 3
    /\ qs.query.Limit = 1
    /\ qs.total = 3
    /\ Len(qs.seen) = 3

\* C29: a Query or Scan that starts after a write has committed returns the
\* rows as that write left them.
QueryObservesCommittedWrites ==
    (qs.pc = "queried" /\ qs.wrote) => qs.rows = strongQuery(qs.log, qs.now)

\* C30: the statement of QueryAttributes names the table of the backend,
\* ActualTable of the configuration, whether or not the query names an
\* index, and the keys in use are those of the index when the query names
\* one that is declared, else those of the table.
QueryAddressesActualTable ==
    (qs.pc \in {"returned", "panicked", "failed"}) =>
        /\ qs.stmt.from.table = GetTableConf(qs.query.TableName).ActualTable
        /\ qs.keys.pKey = IF qs.query.IndexName \in DOMAIN Indices
                          THEN Indices[qs.query.IndexName].PartitionKey
                          ELSE PartitionKey
        /\ qs.keys.sKey = IF qs.query.IndexName \in DOMAIN Indices
                          THEN Indices[qs.query.IndexName].SortKey
                          ELSE SortKey

====
